---------------------------- MODULE Spec2Model ----------------------------
(***************************************************************************)
(* Model of the eelab bench-instrument tools: the helper functions of      *)
(* eelib.py / bodeplot.py (norm_angle, step, hscale), the frequency sweep  *)
(* of bodeplot.py, the batched waveform fetch of eelib.py, the waveform    *)
(* tool plot.py, vautoscale (eelib.py, autoscale.py), the scripts' wait(), *)
(* the gate positioning of curvetracer.py, the scalar measurements, the    *)
(* session setup and teardown of eelib.py, vunit and the logging loop of   *)
(* datalogger.py.                                                          *)
(*                                                                         *)
(* Numbers.  Angles are whole degrees.  A frequency is m * 10^e Hz, held   *)
(* as the pair (m, e); the sweep's frequencies are whole Hz (e = 0), as    *)
(* argparse's type=int makes them.  A horizontal scale is the pair         *)
(* <<j, i>> of the string f"{j}{units[i]}".  Voltages are integers in a    *)
(* unit in which every vertical scale is a multiple of 25, so that         *)
(* vscale / 25 is exact.                                                   *)
(***************************************************************************)
EXTENDS Integers, Sequences, FiniteSets, TLC

VARIABLES
    \* ---- module-test harness of norm_angle (eelib.py 16-23, 231-233)
    apc,        \* "arg" | "once" | "twice"
    x,          \* the angle passed to norm_angle
    r1,         \* norm_angle(x)
    r2,         \* norm_angle(norm_angle(x))
    \* ---- harness of hscale (eelib.py 84-92)
    hpc,        \* "arg" | "one" | "two"
    hf1, hf2,   \* two frequencies, records [m, e]; hf1 <= hf2
    hs1, hs2,   \* hscale of each, <<j, i>>
    \* ---- bodeplot.py, the script from line 157 on
    spc,        \* the line the script is at
    fs, fe,     \* args.fs, args.fe
    quality,    \* args.quality
    f,          \* the sweep frequency (line 219)
    df,         \* the last step (line 243)
    xpts,       \* the frequencies recorded (line 237), the last MaxPts of them
    vpp1, vpp2, \* the amplitudes measured in this pass: "pos" | "zero"
    awgOut,     \* the generator's output is ON
    awgFrq,     \* the generator's frequency
    tdiv,       \* the scope's timebase, <<j, i>>
    open,       \* the instrument handles that are open
    exitStatus, \* the status the script exited with, 0 while it runs
    \* ---- fetch(ch), eelib.py 171-193, and the scope it talks to
    fpc,        \* the line fetch is at
    ch,         \* the channel fetched
    vscale,     \* measure_vscale(ch), line 173
    voffset,    \* measure_voffset(ch), line 174
    fetch_n,    \* n = nsamples(ch), line 178
    fetch_i,    \* i, the loop variable of line 179: the batch's first point
    data,       \* the voltages appended so far
    rawdata,    \* the last batch answer read (line 182)
    fexit,      \* the status fetch exited with, 0 if it has not
    wave,       \* which waveform the scope holds
    honest,     \* every batch so far was answered with min(20, n - i) samples
    \* ---- plot.py, the script from line 45 on
    ppc,        \* the line the script is at
    navg,       \* args.navg
    channels,   \* active_channels(), line 47
    plot_n,     \* n = nsamples(channels[0]), line 49
    counts,     \* the sample counts the scope reported at lines 49 and 54
    plot_i,     \* i, the sweep (line 61)
    plot_c,     \* c, the channel being checked (line 53) or fetched (line 64)
    ypts,       \* the length of each row of ypts (line 67)
    pcmds,      \* what was sent to the scope so far: records [op, val]
    tra,        \* the scope's answers to C1:TRA? .. C4:TRA? (eelib.py line 37)
    pexit,      \* the status the script exited with, 0 while it runs
    \* ---- vautoscale(ch), eelib.py 64-82 and autoscale.py 39-57
    vpc,        \* the line vautoscale is at
    vtool,      \* whose vautoscale runs: "eelib" | "autoscale"
    iterations, \* the iteration bound (args.iterations)
    vdiv,       \* the target divisions (args.vdiv), in tenths
    vlo, vhi,   \* the signal's true minimum and maximum, microvolts
    auto_i,     \* i, the loop variable
    match1,     \* the answer to PAVA? MIN: [shape, val]
    match2,     \* the answer to PAVA? MAX
    acmds,      \* what was sent to the scope so far: records [op, val]
    aexit,      \* the status vautoscale exited with, 0 if it has not
    \* ---- wait(), as each script defines it, and the instruments it waits for
    wpc,        \* "call" | "run" | "returned"
    wtool,      \* the script whose wait() runs
    wdelay,     \* args.delay of bodeplot.py, tenths of a second
    wsteps,     \* the statements of wait() still to run
    busy,       \* per instrument, the tenths of a second its pending work takes
    wclock,     \* the time since the call, tenths of a second
    wevents,    \* what happened during the call: "sleep" | "ack"
    \* ---- curvetracer.py, the script from line 114 on, and the scope's gate
    tpc,        \* the line the script is at
    tquality,   \* args.quality
    traces,     \* iterations, the number of traces (lines 86, 104)
    nmean,      \* len(channels), the channels measured per window
    hdiv,       \* hdiv, line 119, in ticks
    gate_dt,    \* dt, line 120, in ticks
    trace_i,    \* i, line 122
    gate_t,     \* t, lines 130 and 146, in ticks
    mean_c,     \* idx, line 141
    megA, megB, \* the scope's gate start and end markers, in ticks
    tpending,   \* the writes of the running position_gate call still to send
    tcmds,      \* the last MaxLog things sent to the scope
    texit,      \* the status the script exited with, 0 while it runs
    \* ---- the scalar measurements and the loop that records them
    mpc,        \* "call" | "returned" | "exit" | "raised" | "done"
    mkind,      \* the measurement the caller takes
    manswer,    \* the scope's answer to the last query: [shape, val]
    mresult,    \* what the last call returned
    mrecorded,  \* the values the caller recorded (appended, printed)
    mexit,      \* the status the run ended with, 0 while it runs
    \* ---- the session: eelib.py 195-229 and the end of the tool's run
    sespc,      \* the config key being read, then "list" | "run" | "closed" | "exit"
    pins,       \* config.ini: per role the pinned address, or "none"
    listed,     \* what rm.list_resources() enumerates, still to visit
    resources,  \* resources: per role the handle bound to it, or NoHandle
    opened,     \* the handles opened and not closed
    sesexit,    \* the status the run ended with, 0 while it runs
    \* ---- vunit(v), eelib.py 25-31
    upc,        \* "call" | "returned"
    uv,         \* v, a decimal: [neg, m, e] is (-)m * 10^e volts
    ushown,     \* the text returned: [neg, m, e, unit], the number and its unit
    \* ---- datalogger.py, the script from line 85 on
    lpc,        \* the line the script is at, or how it ended
    llimit,     \* args.limit
    cawg,       \* args.cawg, 0 for no generator channel
    lvmin,      \* args.vmin, volts
    lvmax,      \* args.vmax, volts
    dvawg,      \* dvawg, in 1/(limit - 1) volts
    vawg,       \* vawg, in 1/(limit - 1) volts
    log_n,      \* n, line 110
    lchan,      \* len(channels)
    lrows,      \* the length of each row of ypts
    lofst,      \* the generator's DC offset, in 1/(limit - 1) volts
    lapplied,   \* the generator's offset when each sample was taken
    lopen,      \* the handles opened and not closed
    lexit       \* the status the script exited with, 0 while it runs

angleVars  == <<apc, x, r1, r2>>
hscaleVars == <<hpc, hf1, hf2, hs1, hs2>>
sweepVars  == <<spc, fs, fe, quality, f, df, xpts, vpp1, vpp2, awgOut, awgFrq,
                tdiv, open, exitStatus>>
fetchVars  == <<fpc, ch, vscale, voffset, fetch_n, fetch_i, data, rawdata, fexit, wave, honest>>

plotVars   == <<ppc, navg, channels, plot_n, counts, plot_i, plot_c, ypts, pcmds, tra,
                pexit>>

autoVars   == <<vpc, vtool, iterations, vdiv, vlo, vhi, auto_i, match1, match2, acmds, aexit>>

waitVars   == <<wpc, wtool, wdelay, wsteps, busy, wclock, wevents>>

tracerVars == <<tpc, tquality, traces, nmean, hdiv, gate_dt, trace_i, gate_t, mean_c,
                megA, megB, tpending, tcmds, texit>>

measVars   == <<mpc, mkind, manswer, mresult, mrecorded, mexit>>

sessionVars == <<sespc, pins, listed, resources, opened, sesexit>>

vunitVars  == <<upc, uv, ushown>>

loggerVars == <<lpc, llimit, cawg, lvmin, lvmax, dvawg, vawg, log_n, lchan, lrows, lofst,
                lapplied, lopen, lexit>>

-----------------------------------------------------------------------------
(* Bounds of the model *)

MaxAngle  == 725    \* angles passed to norm_angle: -MaxAngle..MaxAngle degrees
MaxMant   == 26     \* frequency mantissas 1..MaxMant
MaxNegExp == 4      \* frequency exponents -MaxNegExp..MaxPosExp
MaxPosExp == 6
MaxLead   == 9      \* sweep start frequencies a * 10^b, a in 1..MaxLead,
MaxDecade == 2      \*   b in 0..MaxDecade
MaxSpan   == 2      \* sweep end frequencies fs + d * 10^b, d in -1..MaxSpan
MaxPts    == 3      \* recorded frequencies kept in xpts
MaxSamples == 41    \* sample counts 0..MaxSamples
MaxScale  == 2      \* vertical scales 25 * (1..MaxScale)
MaxOffset == 1      \* vertical offsets -MaxOffset..MaxOffset
MaxWave   == 1      \* waveforms 0..MaxWave held by the scope

MaxAvg    == 2      \* sweeps to average, 0..MaxAvg
MaxActive == 2      \* at most MaxActive channels are on

MaxIter   == 2      \* iteration bounds 0..MaxIter

MaxDelay  == 2      \* args.delay 0..MaxDelay tenths of a second
MaxBusy   == 3      \* an instrument is busy for 0..MaxBusy tenths of a second

MaxQuality == 2     \* curve tracer qualities 1..MaxQuality
MaxTraces == 2      \* traces 1..MaxTraces
MaxTimebase == 1    \* timebases 1..MaxTimebase, in units of 16 * quality * Grain ticks
MaxDrift  == 1      \* ticks the rounding of t = t + dt may build up to
MaxLog    == 4      \* commands kept in tcmds

MaxCalls  == 2      \* measurements a caller takes

MaxListed == 2      \* resources the discovery enumerates

MaxVoltExp == 7     \* voltage exponents -MaxVoltExp..0

MaxLimit  == 3      \* sample limits 1..MaxLimit
MaxVolt   == 2      \* generator voltages 0..MaxVolt

-----------------------------------------------------------------------------
(* norm_angle, eelib.py 16-23 (bodeplot.py 30-37 is the same text).        *)
(* Python's x % 360 has the sign of the divisor, as TLA+'s % has.          *)

norm_angle_gt(a) ==
    LET m == a % 360
    IN  IF m > 180 THEN m - 360
        ELSE IF m < -180 THEN m + 360
        ELSE m

norm_angle_nomod(a) ==
    IF a >= 180 THEN a - 360
    ELSE IF a < -180 THEN a + 360
    ELSE a

norm_angle(a) ==
    LET m == a % 360
    IN  IF m >= 180 THEN m - 360
        ELSE IF m < -180 THEN m + 360
        ELSE m

-----------------------------------------------------------------------------
(* hscale, eelib.py 84-92 (bodeplot.py 44-52 is the same text).            *)

\* units = ("ns", "us", "ms", "s"), factors[i] = 10^(3i-9), i = 0..3
units == 0 .. 3

\* the inner tuple (1, 2, 5, 10, 20, 50, 100, 200, 500)
ladder == <<1, 2, 5, 10, 20, 50, 100, 200, 500>>

RECURSIVE Pow10(_)
Pow10(n) == IF n = 0 THEN 1 ELSE 10 * Pow10(n - 1)

\* sign of  j * 10^(3i-9)  -  1 / (4 * m * 10^e)  in exact arithmetic:
\* with k = 3i - 9 + e it is the sign of 4*m*j*10^k - 1.  4*m*j stays below
\* 10^9 for every mantissa of the model, so k < -9 decides without a power.
CmpQuarter(j, i, m, e) ==
    LET k == 3 * i - 9 + e
    IN  IF k >= 0 THEN 1
        ELSE IF k < -9 THEN -1
        ELSE IF 4 * m * j > Pow10(-k) THEN 1
        ELSE IF 4 * m * j = Pow10(-k) THEN 0
        ELSE -1

\* The double product j * factors[i] against the double quotient 1 / (f * 4)
\* when the two are equal as real numbers: 50 * 1e-9, 100 * 1e-9, 200 * 1e-9
\* and 500 * 1e-9 round above the nearest double of their exact value
\* (5.000000000000001e-07 > 5e-07), every other product of the ladder does not.
FloatProductAbove(j, i) == i = 0 /\ j \in {50, 100, 200, 500}

\* line 91: j * factors[i] > t, evaluated in double precision
Exceeds(j, i, m, e) ==
    \/ CmpQuarter(j, i, m, e) = 1
    \/ CmpQuarter(j, i, m, e) = 0 /\ FloatProductAbove(j, i)

\* the pairs (i, j-index) in loop order
LadderRank(i, n) == i * Len(ladder) + n

hscale(m, e) ==
    LET hits == { p \in units \X (1 .. Len(ladder)) : Exceeds(ladder[p[2]], p[1], m, e) }
    IN  IF hits = {} THEN <<1, 3>>                       \* return "1s"
        ELSE LET first == CHOOSE p \in hits :
                     \A o \in hits : LadderRank(p[1], p[2]) <= LadderRank(o[1], o[2])
             IN  <<ladder[first[2]], first[1]>>

-----------------------------------------------------------------------------
(* Harness of norm_angle: the module test of eelib.py 231-233 run on every *)
(* angle of the model, and once more on its own result.                    *)

AngleIdle == apc = "idle" /\ x = 0 /\ r1 = 0 /\ r2 = 0

InitAngleTest ==
    /\ apc = "arg"
    /\ x \in -MaxAngle .. MaxAngle
    /\ r1 = 0
    /\ r2 = 0

CallNormAngle ==
    /\ apc = "arg"
    /\ r1' = norm_angle(x)
    /\ apc' = "once"
    /\ UNCHANGED <<x, r2>>

CallNormAngleAgain ==
    /\ apc = "once"
    /\ r2' = norm_angle(r1)
    /\ apc' = "twice"
    /\ UNCHANGED <<x, r1>>

(* Harness of hscale: one frequency, then a second one not below it.       *)

Freqs == [m : 1 .. MaxMant, e : -MaxNegExp .. MaxPosExp]

\* a <= b as frequencies; mantissas are below 1000, so three decades decide
FreqLeq(a, b) ==
    LET d == a.e - b.e
    IN  IF d > 2 THEN FALSE
        ELSE IF d >= 0 THEN a.m * Pow10(d) <= b.m
        ELSE IF d < -2 THEN TRUE
        ELSE a.m <= b.m * Pow10(-d)

HscaleIdle ==
    /\ hpc = "idle"
    /\ hf1 = [m |-> 1, e |-> 0] /\ hf2 = [m |-> 1, e |-> 0]
    /\ hs1 = <<1, 0>> /\ hs2 = <<1, 0>>

InitHscaleTest ==
    /\ hpc = "arg"
    /\ hf1 \in Freqs
    /\ hf2 = hf1
    /\ hs1 = <<1, 0>> /\ hs2 = <<1, 0>>

CallHscale ==
    /\ hpc = "arg"
    /\ hs1' = hscale(hf1.m, hf1.e)
    /\ hpc' = "one"
    /\ UNCHANGED <<hf1, hf2, hs2>>

CallHscaleHigher ==
    /\ hpc = "one"
    /\ \E g \in Freqs :
          /\ FreqLeq(hf1, g)
          /\ hf2' = g
          /\ hs2' = hscale(g.m, g.e)
    /\ hpc' = "two"
    /\ UNCHANGED <<hf1, hs1>>

-----------------------------------------------------------------------------
(* step, bodeplot.py 39-42 *)

\* math.floor(math.log10(f)) of a whole frequency f >= 1
RECURSIVE FloorLog10(_)
FloorLog10(n) == IF n < 10 THEN 0 ELSE 1 + FloorLog10(n \div 10)

\* Python 3's round(n / d) for whole n, d > 0: to the nearest integer, a
\* tie (n / d = k + 0.5, exact in a double) to the even one
round(n, d) ==
    LET k == n \div d
        r == n % d
    IN  IF 2 * r < d THEN k
        ELSE IF 2 * r > d THEN k + 1
        ELSE IF k % 2 = 0 THEN k ELSE k + 1

step(g) == round(Pow10(FloorLog10(g)), quality)

-----------------------------------------------------------------------------
(* bodeplot.py, the script: instruments found (157-164), then setup, the    *)
(* sample-rate query, the sweep loop and the shutdown.  A device answer is  *)
(* one of the shapes the parsing code tells apart.                         *)

\* choices=range(1, 11) of -q, line 153
Qualities == 1 .. 10

\* an answer to PAVA? PKPK: a number (positive, or zero), the sentinel
\* "****", or text that does not match
VppAnswers == {"pos", "zero", "sentinel", "malformed"}
PhaseAnswers == {"valid", "sentinel", "malformed"}

SweepIdle ==
    /\ spc = "idle" /\ fs = 1 /\ fe = 1 /\ quality = 1 /\ f = 1 /\ df = 0
    /\ xpts = <<>> /\ vpp1 = "pos" /\ vpp2 = "pos"
    /\ awgOut = FALSE /\ awgFrq = 0 /\ tdiv = <<1, 0>>
    /\ open = {} /\ exitStatus = 0

InitBode ==
    /\ spc = "setup"
    /\ \E a \in 1 .. MaxLead, b \in 0 .. MaxDecade, d \in -1 .. MaxSpan :
          /\ fs = a * Pow10(b)
          /\ fe = fs + d * Pow10(b)
    /\ quality \in Qualities
    /\ f = fs /\ df = 0
    /\ xpts = <<>> /\ vpp1 = "pos" /\ vpp2 = "pos"
    /\ awgOut = FALSE /\ awgFrq = 0 /\ tdiv = <<1, 0>>
    /\ open = {"dso", "awg"}
    /\ exitStatus = 0

\* sys.exit(status), or an uncaught exception (status 1): the script stops
\* where it is, nothing is switched off or closed
Exit(status) ==
    /\ spc' = "exit"
    /\ exitStatus' = status

\* lines 170-203: generator and scope set up, output ON
Setup ==
    /\ spc = "setup"
    /\ awgFrq' = fs
    /\ awgOut' = TRUE
    /\ tdiv' = hscale(fs, 0)
    /\ spc' = "sara"
    /\ UNCHANGED <<fs, fe, quality, f, df, xpts, vpp1, vpp2, open, exitStatus>>

\* lines 205-210: the sample rate is parsed if it matches; nothing else
\* depends on the answer
QuerySampleRate ==
    /\ spc = "sara"
    /\ \E answer \in {"valid", "malformed"} : spc' = "while"
    /\ UNCHANGED <<fs, fe, quality, f, df, xpts, vpp1, vpp2, awgOut, awgFrq,
                   tdiv, open, exitStatus>>

\* line 220: while f <= args.fe
LoopTest ==
    /\ spc = "while"
    /\ spc' = IF f <= fe THEN "tdiv" ELSE "finish"
    /\ UNCHANGED <<fs, fe, quality, f, df, xpts, vpp1, vpp2, awgOut, awgFrq,
                   tdiv, open, exitStatus>>

\* lines 221-225
SetFrequency ==
    /\ spc = "tdiv"
    /\ tdiv' = hscale(f, 0)
    /\ awgFrq' = f
    /\ spc' = "auto1"
    /\ UNCHANGED <<fs, fe, quality, f, df, xpts, vpp1, vpp2, awgOut, open,
                   exitStatus>>

\* vautoscale, lines 62-73: a number sets the scale, anything else exits 1
vautoscale(answer, next) ==
    IF answer \in {"pos", "zero"}
    THEN spc' = next /\ UNCHANGED exitStatus
    ELSE Exit(1)

\* line 227
VautoscaleIn ==
    /\ spc = "auto1"
    /\ \E answer \in VppAnswers : vautoscale(answer, "auto2")
    /\ UNCHANGED <<fs, fe, quality, f, df, xpts, vpp1, vpp2, awgOut, awgFrq,
                   tdiv, open>>

\* lines 228-229
VautoscaleOut ==
    /\ spc = "auto2"
    /\ \E answer \in VppAnswers : vautoscale(answer, "vpp1")
    /\ UNCHANGED <<fs, fe, quality, f, df, xpts, vpp1, vpp2, awgOut, awgFrq,
                   tdiv, open>>

\* measure_vpp, lines 78-88, called at line 231
MeasureVppIn ==
    /\ spc = "vpp1"
    /\ \E answer \in VppAnswers :
          IF answer \in {"pos", "zero"}
          THEN vpp1' = answer /\ spc' = "vpp2" /\ UNCHANGED exitStatus
          ELSE Exit(2) /\ UNCHANGED vpp1
    /\ UNCHANGED <<fs, fe, quality, f, df, xpts, vpp2, awgOut, awgFrq, tdiv, open>>

\* line 232
MeasureVppOut ==
    /\ spc = "vpp2"
    /\ \E answer \in VppAnswers :
          IF answer \in {"pos", "zero"}
          THEN vpp2' = answer /\ spc' = "dbv" /\ UNCHANGED exitStatus
          ELSE Exit(2) /\ UNCHANGED vpp2
    /\ UNCHANGED <<fs, fe, quality, f, df, xpts, vpp1, awgOut, awgFrq, tdiv, open>>

\* line 233: dBV(vpp2 / vpp1) raises ZeroDivisionError for vpp1 = 0 and
\* ValueError (log10 of 0) for vpp2 = 0
ComputeDb ==
    /\ spc = "dbv"
    /\ IF vpp1 = "zero" \/ vpp2 = "zero"
       THEN Exit(1)
       ELSE spc' = "phase" /\ UNCHANGED exitStatus
    /\ UNCHANGED <<fs, fe, quality, f, df, xpts, vpp1, vpp2, awgOut, awgFrq,
                   tdiv, open>>

\* measure_phase, lines 90-104, called at line 234: the sentinel gives 0
MeasurePhase ==
    /\ spc = "phase"
    /\ \E answer \in PhaseAnswers :
          IF answer = "malformed"
          THEN Exit(4)
          ELSE spc' = "record" /\ UNCHANGED exitStatus
    /\ UNCHANGED <<fs, fe, quality, f, df, xpts, vpp1, vpp2, awgOut, awgFrq,
                   tdiv, open>>

\* xpts.append(f), keeping the last MaxPts
AppendKept(seq, v) ==
    IF Len(seq) < MaxPts THEN Append(seq, v)
    ELSE Append(Tail(seq), v)

\* lines 236-241
Record ==
    /\ spc = "record"
    /\ xpts' = AppendKept(xpts, f)
    /\ spc' = "step"
    /\ UNCHANGED <<fs, fe, quality, f, df, vpp1, vpp2, awgOut, awgFrq, tdiv,
                   open, exitStatus>>

\* lines 243-244
Advance ==
    /\ spc = "step"
    /\ df' = step(f)
    /\ f' = f + df'
    /\ spc' = "while"
    /\ UNCHANGED <<fs, fe, quality, xpts, vpp1, vpp2, awgOut, awgFrq, tdiv,
                   open, exitStatus>>

\* lines 246-248
Finish ==
    /\ spc = "finish"
    /\ awgOut' = FALSE
    /\ open' = {}
    /\ spc' = "done"
    /\ UNCHANGED <<fs, fe, quality, f, df, xpts, vpp1, vpp2, awgFrq, tdiv,
                   exitStatus>>

-----------------------------------------------------------------------------
(* fetch, eelib.py 171-193, with measure_vscale (42-51), measure_voffset    *)
(* (53-62) and nsamples (160-169).                                         *)

\* for ch in ['C1', 'C2', 'C3', 'C4'], line 36
Channels == {"C1", "C2", "C3", "C4"}

\* some channel other than c
OtherChannel(c) == IF c = "C1" THEN "C2" ELSE "C1"

\* batchsize = 20, line 177
batchsize == 20

Min(a, b) == IF a <= b THEN a ELSE b

\* The scope.  Point k of the waveform it holds is the byte Byte(k); waveform
\* 1 starts 127, 128, 129, ...
Byte(k) == (wave * 127 + k) % 256

\* the two bytes that end every answer, stripped by [... : -2] at line 186
terminator == <<10, 10>>

\* An answer to "WF? DAT2": the header's channel and byte count, then the
\* payload and the terminator.  len payload bytes starting at point first.
Answer(c, count, first, len) ==
    [ch |-> c, count |-> count,
     body |-> [k \in 1 .. len |-> Byte(first + k - 1)] \o terminator]

\* the answer of a scope that sends the min(batchsize, n - first) points left
HonestAnswer(c, total, first) ==
    Answer(c, Min(batchsize, total - first), first, Min(batchsize, total - first))

\* what a scope may answer: the channel asked for or another one; a count of
\* the points left, of one more, or of the NP asked for; as many payload
\* bytes as the points left or as the count announced
DeviceAnswers(c, total, first) ==
    { Answer(hc, count, first, len) :
        hc \in {c, OtherChannel(c)},
        count \in {Min(batchsize, total - first),
                   Min(batchsize, total - first + 1), batchsize},
        len \in {Min(batchsize, total - first),
                 Min(batchsize, total - first + 1)} }

\* line 183
remaining(total, first) == Min(batchsize, total - first + 1)

\* lines 184-185: the answer starts with f"{ch}:WF DAT2,#90{remaining:08d}"
HeaderMatches_count_only(raw, c, rem) == raw.count = rem

HeaderMatches(raw, c, rem) == raw.ch = c /\ raw.count = rem

\* line 186: rawdata[len(header) : -2]
Payload(raw) == SubSeq(raw.body, 1, Len(raw.body) - 2)

\* lines 187-188
Volt_unsigned(b, vs, vo) == b * (vs \div 25) - vo

Volt(b, vs, vo) ==
    LET s == IF b > 127 THEN b - 256 ELSE b
    IN  s * (vs \div 25) - vo

\* lines 186-189 for one batch
Decode(raw, vs, vo) ==
    [k \in 1 .. Len(Payload(raw)) |-> Volt(Payload(raw)[k], vs, vo)]

NoAnswer == [ch |-> "C1", count |-> 0, body |-> <<>>]

FetchIdle ==
    /\ fpc = "idle" /\ ch = "C1" /\ vscale = 0 /\ voffset = 0 /\ fetch_n = 0 /\ fetch_i = 0
    /\ data = <<>> /\ rawdata = NoAnswer /\ fexit = 0 /\ wave = 0
    /\ honest = TRUE

InitFetchCall ==
    /\ fpc = "vdiv"
    /\ ch \in Channels
    /\ wave \in 0 .. MaxWave
    /\ vscale = 0 /\ voffset = 0 /\ fetch_n = 0 /\ fetch_i = 0
    /\ data = <<>> /\ rawdata = NoAnswer /\ fexit = 0
    /\ honest = TRUE

FetchExit(status) ==
    /\ fpc' = "exit"
    /\ fexit' = status

\* line 173, measure_vscale: a number, or exit 7
FetchVscale ==
    /\ fpc = "vdiv"
    /\ \/ \E s \in 1 .. MaxScale :
             vscale' = 25 * s /\ fpc' = "ofst" /\ UNCHANGED fexit
       \/ FetchExit(7) /\ UNCHANGED vscale
    /\ UNCHANGED <<ch, voffset, fetch_n, fetch_i, data, rawdata, wave, honest>>

\* line 174, measure_voffset: a number, or exit 8
FetchVoffset ==
    /\ fpc = "ofst"
    /\ \/ \E o \in -MaxOffset .. MaxOffset :
             voffset' = o /\ fpc' = "sanu" /\ UNCHANGED fexit
       \/ FetchExit(8) /\ UNCHANGED voffset
    /\ UNCHANGED <<ch, vscale, fetch_n, fetch_i, data, rawdata, wave, honest>>

\* lines 175-178, nsamples: a count, or exit 5; then range(0, n, batchsize)
FetchNsamples ==
    /\ fpc = "sanu"
    /\ \/ \E total \in 0 .. MaxSamples :
             fetch_n' = total /\ fpc' = "for" /\ UNCHANGED fexit
       \/ FetchExit(5) /\ UNCHANGED fetch_n
    /\ UNCHANGED <<ch, vscale, voffset, fetch_i, data, rawdata, wave, honest>>

\* lines 180-192, one pass of the loop: the request (NP batchsize, FP i), the
\* answer, the header check, then the samples or exit 6
FetchBatch ==
    /\ fpc = "for"
    /\ fetch_i < fetch_n
    /\ \E raw \in DeviceAnswers(ch, fetch_n, fetch_i) :
          /\ rawdata' = raw
          /\ honest' = (honest /\ raw = HonestAnswer(ch, fetch_n, fetch_i))
          /\ IF HeaderMatches(raw, ch, remaining(fetch_n, fetch_i))
             THEN /\ data' = data \o Decode(raw, vscale, voffset)
                  /\ fetch_i' = fetch_i + batchsize
                  /\ UNCHANGED <<fpc, fexit>>
             ELSE /\ FetchExit(6)
                  /\ UNCHANGED <<data, fetch_i>>
    /\ UNCHANGED <<ch, vscale, voffset, fetch_n, wave>>

\* line 193
FetchReturn ==
    /\ fpc = "for"
    /\ fetch_i >= fetch_n
    /\ fpc' = "returned"
    /\ UNCHANGED <<ch, vscale, voffset, fetch_n, fetch_i, data, rawdata, fexit, wave, honest>>

-----------------------------------------------------------------------------
(* plot.py, lines 45-74: the sample-count guards and the loop that stops    *)
(* the acquisition, fetches every active channel and arms again.  fetch is *)
(* modelled by what plot.py observes of it: the queries it sends, the      *)
(* sample count it queries for itself (eelib.py line 178), the batches it  *)
(* requests and the number of voltages it returns.                         *)

\* if n > 14000, line 50
limit == 14000

\* the sample counts the scope may report
PlotCounts == {batchsize, 2 * batchsize, limit, limit + 1}

\* for ch in ['C1', 'C2', 'C3', 'C4'], eelib.py line 36
ChannelOrder == <<"C1", "C2", "C3", "C4">>

\* the channels of on, in the order active_channels() asks for them
RECURSIVE InOrder(_, _)
InOrder(on, k) ==
    IF k > Len(ChannelOrder) THEN <<>>
    ELSE (IF ChannelOrder[k] \in on THEN <<ChannelOrder[k]>> ELSE <<>>)
           \o InOrder(on, k + 1)

\* something sent to the scope: a command or a query, with its argument;
\* or a sleep, with its length in tenths of a second
Cmd(op, val) == [op |-> op, val |-> val]

\* time.sleep(0.1); dso.query("*OPC?"), plot.py lines 22-25
wait_plot == <<Cmd("sleep", 1), Cmd("*OPC?", 0)>>

PlotIdle ==
    /\ ppc = "idle" /\ navg = 0 /\ channels = <<>> /\ plot_n = 0
    /\ counts = <<>> /\ plot_i = 0 /\ plot_c = 0 /\ ypts = <<>>
    /\ pcmds = <<>> /\ tra = <<>> /\ pexit = 0

InitPlotScript ==
    /\ ppc = "channels"
    /\ navg \in 0 .. MaxAvg
    /\ channels = <<>> /\ plot_n = 0 /\ counts = <<>>
    /\ plot_i = 0 /\ plot_c = 0 /\ ypts = <<>> /\ pcmds = <<>> /\ tra = <<>>
    /\ pexit = 0

PlotExit(status) ==
    /\ ppc' = "exit"
    /\ pexit' = status

\* an exception nobody catches: the interpreter prints the traceback and
\* exits with status 1
PlotRaise ==
    /\ ppc' = "raised"
    /\ pexit' = 1

\* what the scope may answer to Cn:TRA?: the trace is on, it is off, or
\* something that is neither "Cn:TRA ON" nor "Cn:TRA OFF"
TraceAnswers == {"on", "off", "malformed"}

\* eelib.py lines 33-40: a channel is appended when its answer matches
\* "^(C\d):TRA ON$"; any other answer, malformed or not, appends nothing
active_channels(answers) ==
    InOrder({ChannelOrder[k] : k \in {j \in DOMAIN answers : answers[j] = "on"}}, 1)

\* lines 47-48
PlotActiveChannels ==
    /\ ppc = "channels"
    /\ \E answers \in [1 .. Len(ChannelOrder) -> TraceAnswers] :
          /\ Len(active_channels(answers)) <= MaxActive
          /\ tra' = answers
          /\ channels' = active_channels(answers)
          /\ IF active_channels(answers) = <<>>
             THEN PlotExit(0)
             ELSE ppc' = "sanu" /\ UNCHANGED pexit
    /\ pcmds' = pcmds \o [k \in 1 .. Len(ChannelOrder) |-> Cmd("TRA?", k)]
    /\ UNCHANGED <<navg, plot_n, counts, plot_i, plot_c, ypts>>

\* lines 49-52: nsamples (exit 5), then the limit
PlotNsamples ==
    /\ ppc = "sanu"
    /\ pcmds' = Append(pcmds, Cmd("SANU?", 1))
    /\ \/ \E total \in PlotCounts :
             /\ plot_n' = total
             /\ counts' = Append(counts, total)
             /\ IF total > limit
                THEN PlotExit(1) /\ UNCHANGED plot_c
                ELSE ppc' = "same" /\ plot_c' = 1 /\ UNCHANGED pexit
       \/ PlotExit(5) /\ UNCHANGED <<plot_n, counts, plot_c>>
    /\ UNCHANGED <<navg, tra, channels, plot_i, ypts>>

\* lines 53-56, one channel
PlotSameCount ==
    /\ ppc = "same"
    /\ plot_c <= Len(channels)
    /\ pcmds' = Append(pcmds, Cmd("SANU?", plot_c))
    /\ \/ \E total \in PlotCounts :
             /\ counts' = Append(counts, total)
             /\ IF total # plot_n
                THEN PlotExit(2) /\ UNCHANGED plot_c
                ELSE plot_c' = plot_c + 1 /\ UNCHANGED <<ppc, pexit>>
       \/ PlotExit(5) /\ UNCHANGED <<counts, plot_c>>
    /\ UNCHANGED <<navg, tra, channels, plot_n, plot_i, ypts>>

\* line 58, measure_hscale (eelib.py 97-106): a number, or exit 2
PlotHscale ==
    /\ ppc = "same"
    /\ plot_c > Len(channels)
    /\ pcmds' = Append(pcmds, Cmd("TDIV?", 0))
    /\ \/ ppc' = "for" /\ UNCHANGED pexit
       \/ PlotExit(2)
    /\ UNCHANGED <<navg, tra, channels, plot_n, counts, plot_i, plot_c, ypts>>

\* lines 61-63: the barrier from the second sweep on, then STOP
PlotStop ==
    /\ ppc = "for"
    /\ plot_i < navg
    /\ pcmds' = pcmds \o (IF plot_i > 0 THEN wait_plot ELSE <<>>)
                      \o <<Cmd("STOP", 0)>>
    /\ plot_c' = 1
    /\ ppc' = "fetch"
    /\ UNCHANGED <<navg, tra, channels, plot_n, counts, plot_i, ypts, pexit>>

\* lines 64-68 for one channel.  fetch (eelib.py 171-193) asks for the
\* scale (exit 7), the offset (exit 8) and the sample count (exit 5), then
\* requests the batches of the count it was told (exit 6 at a header it
\* does not expect) and returns that many voltages; the script adds the
\* first n of them to the channel's row.
PlotFetch ==
    /\ ppc = "fetch"
    /\ plot_c <= Len(channels)
    /\ \/ /\ pcmds' = pcmds \o <<Cmd("VDIV?", plot_c)>>
          /\ PlotExit(7)
          /\ UNCHANGED <<plot_c, ypts>>
       \/ /\ pcmds' = pcmds \o <<Cmd("VDIV?", plot_c), Cmd("OFST?", plot_c)>>
          /\ PlotExit(8)
          /\ UNCHANGED <<plot_c, ypts>>
       \/ /\ pcmds' = pcmds \o <<Cmd("VDIV?", plot_c), Cmd("OFST?", plot_c),
                                 Cmd("SANU?", plot_c)>>
          /\ PlotExit(5)
          /\ UNCHANGED <<plot_c, ypts>>
       \/ \E total \in PlotCounts :
             /\ pcmds' = pcmds \o <<Cmd("VDIV?", plot_c), Cmd("OFST?", plot_c),
                                    Cmd("SANU?", plot_c), Cmd("WF?", total)>>
             /\ \/ PlotExit(6) /\ UNCHANGED <<plot_c, ypts>>
                \/ /\ ypts' = IF plot_i = 0 THEN Append(ypts, plot_n) ELSE ypts
                   /\ IF total < plot_n
                      THEN PlotRaise /\ UNCHANGED plot_c
                      ELSE plot_c' = plot_c + 1 /\ UNCHANGED <<ppc, pexit>>
    /\ UNCHANGED <<navg, tra, channels, plot_n, counts, plot_i>>

\* line 69
PlotArm ==
    /\ ppc = "fetch"
    /\ plot_c > Len(channels)
    /\ pcmds' = Append(pcmds, Cmd("ARM", 0))
    /\ plot_i' = plot_i + 1
    /\ ppc' = "for"
    /\ UNCHANGED <<navg, tra, channels, plot_n, counts, plot_c, ypts, pexit>>

\* lines 71-74
PlotFinish ==
    /\ ppc = "for"
    /\ plot_i >= navg
    /\ ppc' = "done"
    /\ UNCHANGED <<navg, tra, channels, plot_n, counts, plot_i, plot_c, ypts, pcmds, pexit>>

-----------------------------------------------------------------------------
(* vautoscale: eelib.py 64-82, and autoscale.py 39-57, which differs in    *)
(* what it does between two iterations.  Voltages are whole microvolts;    *)
(* what f"{v:.5f}" writes is a whole number of 1e-5 V.                     *)

\* what the regular expression and startswith("*") make of an answer
Shapes == {"valid", "sentinel", "malformed"}

Reply(shape, val) == [shape |-> shape, val |-> val]
NoReply == Reply("none", 0)

\* the extremes a signal may have, microvolts
Levels == {-1000000, -15, -5, 0, 5, 20, 1000000}

\* args.vdiv in tenths: 1.0 and the default 7.5
Vdivs == {10, 75}

\* for i in range(0, iterations)
InRange_inclusive(k, bound) == k <= bound

InRange(k, bound) == k < bound

\* time.sleep(0.1); dso.query("*OPC?"), autoscale.py 25-28
wait_autoscale == <<Cmd("sleep", 1), Cmd("*OPC?", 0)>>

\* line 68 of eelib.py: if i > 0: time.sleep(0.1); line 43 of autoscale.py:
\* if i > 0: wait()
Between(tool, k) ==
    IF k > 0
    THEN (IF tool = "eelib" THEN <<Cmd("sleep", 1)>> ELSE wait_autoscale)
    ELSE <<>>

\* line 73: match1 and match2 and neither group starts with "*"
Usable_shape_only(m1, m2) == m1.shape # "malformed" /\ m2.shape # "malformed"

Usable(m1, m2) == m1.shape = "valid" /\ m2.shape = "valid"

\* lines 76-77: vpp = vmax - vmin; v0 = vmin + vpp / 2.  TwiceV0 is 2 * v0.
TwiceV0_no_half(lo, hi) == 2 * lo + 2 * (hi - lo)

TwiceV0(lo, hi) == 2 * lo + (hi - lo)

\* f"{num/den:.5f}" for den > 0: the whole numbers nearest to num / den.
\* Exactly halfway between two, the float that stands for num / den lies
\* on either side, and so does the text.
Nearest(num, den) ==
    LET q == num \div den
        r == num - q * den
    IN  IF 2 * r < den THEN {q}
        ELSE IF 2 * r > den THEN {q + 1}
        ELSE {q, q + 1}

AutoIdle ==
    /\ vpc = "idle" /\ vtool = "eelib" /\ iterations = 0 /\ vdiv = 75
    /\ vlo = 0 /\ vhi = 0 /\ auto_i = 0 /\ match1 = NoReply /\ match2 = NoReply
    /\ acmds = <<>> /\ aexit = 0

InitVautoscale ==
    /\ vpc = "for"
    /\ vtool \in {"eelib", "autoscale"}
    /\ iterations \in 0 .. MaxIter
    /\ vdiv \in Vdivs
    /\ vlo \in Levels /\ vhi \in Levels /\ vlo <= vhi
    /\ auto_i = 0 /\ match1 = NoReply /\ match2 = NoReply
    /\ acmds = <<>> /\ aexit = 0

\* lines 67-68 (autoscale.py 42-43)
VautoFor ==
    /\ vpc = "for"
    /\ InRange(auto_i, iterations)
    /\ acmds' = acmds \o Between(vtool, auto_i)
    /\ vpc' = "min"
    /\ UNCHANGED <<vtool, iterations, vdiv, vlo, vhi, auto_i, match1, match2, aexit>>

\* lines 69-70 (44-45)
VautoMin ==
    /\ vpc = "min"
    /\ acmds' = Append(acmds, Cmd("MIN?", 0))
    /\ \E shape \in Shapes :
          match1' = Reply(shape, IF shape = "valid" THEN vlo ELSE 0)
    /\ vpc' = "max"
    /\ UNCHANGED <<vtool, iterations, vdiv, vlo, vhi, auto_i, match2, aexit>>

\* lines 71-72 (46-47)
VautoMax ==
    /\ vpc = "max"
    /\ acmds' = Append(acmds, Cmd("MAX?", 0))
    /\ \E shape \in Shapes :
          match2' = Reply(shape, IF shape = "valid" THEN vhi ELSE 0)
    /\ vpc' = "if"
    /\ UNCHANGED <<vtool, iterations, vdiv, vlo, vhi, auto_i, match1, aexit>>

\* lines 73-82 (48-57)
VautoAdjust ==
    /\ vpc = "if"
    /\ IF Usable(match1, match2)
       THEN /\ \E ofst \in Nearest(-TwiceV0(match1.val, match2.val), 20),
                  scale \in Nearest(match2.val - match1.val, vdiv) :
                  acmds' = acmds \o <<Cmd("OFST", ofst), Cmd("VDIV", scale)>>
            /\ auto_i' = auto_i + 1
            /\ vpc' = "for"
            /\ UNCHANGED aexit
       ELSE /\ vpc' = "exit"
            /\ aexit' = 1
            /\ UNCHANGED <<acmds, auto_i>>
    /\ UNCHANGED <<vtool, iterations, vdiv, vlo, vhi, match1, match2>>

\* the loop is over
VautoReturn ==
    /\ vpc = "for"
    /\ ~InRange(auto_i, iterations)
    /\ vpc' = "returned"
    /\ UNCHANGED <<vtool, iterations, vdiv, vlo, vhi, auto_i, match1, match2, acmds, aexit>>

-----------------------------------------------------------------------------
(* wait(): bodeplot.py 23-28, curvetracer.py 24-27, autoscale.py 25-28,    *)
(* plot.py 22-25, datalogger.py 24-28.  An instrument works off its        *)
(* pending commands as time passes; it answers *OPC? when it is done.      *)

Instruments == {"dso", "awg"}

WaitTools == {"bodeplot", "curvetracer", "autoscale", "plot", "datalogger"}

\* bodeplot.py 25-28
wait_bodeplot(delay) ==
    <<Cmd("sleep", delay), Cmd("sleep", 1), Cmd("awg *OPC?", 0), Cmd("*OPC?", 0)>>

\* curvetracer.py 26-27
wait_curvetracer_handshake_first == <<Cmd("*OPC?", 0), Cmd("sleep", 5)>>

wait_curvetracer == <<Cmd("sleep", 5), Cmd("*OPC?", 0)>>

\* datalogger.py 26-28
wait_datalogger == <<Cmd("sleep", 5), Cmd("awg *OPC?", 0), Cmd("*OPC?", 0)>>

WaitOf(tool, delay) ==
    CASE tool = "bodeplot" -> wait_bodeplot(delay)
      [] tool = "curvetracer" -> wait_curvetracer
      [] tool = "autoscale" -> wait_autoscale
      [] tool = "plot" -> wait_plot
      [] tool = "datalogger" -> wait_datalogger

\* the instrument a handshake is sent to
Asked(op) == IF op = "awg *OPC?" THEN "awg" ELSE "dso"

\* what is left of a piece of work after some time
Left(work, time) == IF work > time THEN work - time ELSE 0

WaitIdle ==
    /\ wpc = "idle" /\ wtool = "plot" /\ wdelay = 0 /\ wsteps = <<>>
    /\ busy = [k \in Instruments |-> 0] /\ wclock = 0 /\ wevents = <<>>

\* wait() is called while the instruments may still be working
InitWaitCall ==
    /\ wpc = "call"
    /\ wtool \in WaitTools
    /\ wdelay \in 0 .. MaxDelay
    /\ wtool # "bodeplot" => wdelay = 0
    /\ busy \in [Instruments -> 0 .. MaxBusy]
    /\ wsteps = <<>> /\ wclock = 0 /\ wevents = <<>>

WaitCall ==
    /\ wpc = "call"
    /\ wsteps' = WaitOf(wtool, wdelay)
    /\ wpc' = "run"
    /\ UNCHANGED <<wtool, wdelay, busy, wclock, wevents>>

\* time.sleep(...)
WaitSleep ==
    /\ wpc = "run"
    /\ wsteps # <<>>
    /\ Head(wsteps).op = "sleep"
    /\ wclock' = wclock + Head(wsteps).val
    /\ busy' = [k \in Instruments |-> Left(busy[k], Head(wsteps).val)]
    /\ wevents' = Append(wevents, "sleep")
    /\ wsteps' = Tail(wsteps)
    /\ UNCHANGED <<wpc, wtool, wdelay>>

\* awg.query("*OPC?") / dso.query("*OPC?"): returns when the instrument
\* asked has finished
WaitOpc ==
    /\ wpc = "run"
    /\ wsteps # <<>>
    /\ Head(wsteps).op # "sleep"
    /\ LET took == busy[Asked(Head(wsteps).op)]
       IN  /\ wclock' = wclock + took
           /\ busy' = [k \in Instruments |-> Left(busy[k], took)]
    /\ wevents' = Append(wevents, "ack")
    /\ wsteps' = Tail(wsteps)
    /\ UNCHANGED <<wpc, wtool, wdelay>>

WaitReturn ==
    /\ wpc = "run"
    /\ wsteps = <<>>
    /\ wpc' = "returned"
    /\ UNCHANGED <<wtool, wdelay, wsteps, busy, wclock, wevents>>

-----------------------------------------------------------------------------
(* curvetracer.py: position_gate_init (29-31), position_gate (33-35) and   *)
(* the script from line 114 on.  Times are whole ticks, a tick being       *)
(* hdiv / (16 * quality * Grain), so that dt = hdiv / 4 / quality, dt2 and *)
(* the half of dt2 are whole.  The script keeps t in a double and adds dt  *)
(* to it window after window: each sum is rounded, which moves t by up to  *)
(* a tick off the exact position, MaxDrift ticks at most over a trace.     *)

\* the ticks in a sixteenth of dt
Grain == 4 * (MaxDrift + 1)

\* how far t is from the exact window centre next to it, given hdiv and dt
Drift(t, hd, dt) ==
    ((t - (-7 * hd + dt \div 2) + dt \div 2) % dt) - dt \div 2

\* lines 29-31
position_gate_init_end_first(t, dt) ==
    <<Cmd("MEGB", t + dt \div 2), Cmd("MEGA", t - dt \div 2)>>

position_gate_init(t, dt) ==
    <<Cmd("MEGA", t - dt \div 2), Cmd("MEGB", t + dt \div 2)>>

\* lines 33-35
position_gate_start_first(t, dt) ==
    <<Cmd("MEGA", t - dt \div 2), Cmd("MEGB", t + dt \div 2)>>

position_gate(t, dt) ==
    <<Cmd("MEGB", t + dt \div 2), Cmd("MEGA", t - dt \div 2)>>

\* the log keeps the last MaxLog entries
Logged(log, new) ==
    LET all == log \o new
    IN  IF Len(all) <= MaxLog THEN all
        ELSE SubSeq(all, Len(all) - MaxLog + 1, Len(all))

\* where an earlier run may have left the gate
GatesLeft == {<<-2, 2>>, <<108, 112>>}

TracerIdle ==
    /\ tpc = "idle" /\ tquality = 1 /\ traces = 1 /\ nmean = 1 /\ hdiv = 0
    /\ gate_dt = 0 /\ trace_i = 0 /\ gate_t = 0 /\ mean_c = 0
    /\ megA = 0 /\ megB = 0 /\ tpending = <<>> /\ tcmds = <<>> /\ texit = 0

\* the arguments are parsed, some channel is on, the generator is set up
InitCurveTracer ==
    /\ tpc = "setup"
    /\ tquality \in 1 .. MaxQuality
    /\ traces \in 1 .. MaxTraces
    /\ nmean \in 1 .. MaxActive
    /\ hdiv = 0 /\ gate_dt = 0 /\ trace_i = 0 /\ gate_t = 0 /\ mean_c = 0
    /\ \E g \in GatesLeft : megA = g[1] /\ megB = g[2]
    /\ tpending = <<>> /\ tcmds = <<>> /\ texit = 0

\* lines 114-117
TracerSetup ==
    /\ tpc = "setup"
    /\ tcmds' = Logged(tcmds, <<Cmd("XYDS", 0), Cmd("PACU", 0), Cmd("MEGS", 1)>>
                                \o wait_curvetracer)
    /\ tpc' = "hscale"
    /\ UNCHANGED <<tquality, traces, nmean, hdiv, gate_dt, trace_i, gate_t,
                   mean_c, megA, megB, tpending, texit>>

\* lines 119-121: measure_hscale (exit 2), dt, dt2
TracerHscale ==
    /\ tpc = "hscale"
    /\ tcmds' = Logged(tcmds, <<Cmd("TDIV?", 0)>>)
    /\ \/ \E s \in 1 .. MaxTimebase :
             /\ hdiv' = 16 * tquality * s * Grain
             /\ gate_dt' = (hdiv' \div 4) \div tquality
             /\ tpc' = "for"
             /\ UNCHANGED texit
       \/ /\ tpc' = "exit" /\ texit' = 2
          /\ UNCHANGED <<hdiv, gate_dt>>
    /\ UNCHANGED <<tquality, traces, nmean, trace_i, gate_t, mean_c, megA, megB,
                   tpending>>

\* lines 122-131: STOP, ARM, wait, then t and the call of position_gate_init
TracerTrace ==
    /\ tpc = "for"
    /\ trace_i < traces
    /\ tcmds' = Logged(tcmds, <<Cmd("STOP", 0), Cmd("ARM", 0)>> \o wait_curvetracer)
    /\ gate_t' = -7 * hdiv + gate_dt \div 2
    /\ tpending' = position_gate_init(gate_t', gate_dt \div 2)
    /\ tpc' = "init"
    /\ UNCHANGED <<tquality, traces, nmean, hdiv, gate_dt, trace_i, mean_c,
                   megA, megB, texit>>

\* one dso.write of position_gate_init or position_gate: lines 30, 31, 34, 35
TracerWrite ==
    /\ tpc \in {"init", "gate"}
    /\ tpending # <<>>
    /\ tcmds' = Logged(tcmds, <<Head(tpending)>>)
    /\ megA' = IF Head(tpending).op = "MEGA" THEN Head(tpending).val ELSE megA
    /\ megB' = IF Head(tpending).op = "MEGB" THEN Head(tpending).val ELSE megB
    /\ tpending' = Tail(tpending)
    /\ UNCHANGED <<tpc, tquality, traces, nmean, hdiv, gate_dt, trace_i,
                   gate_t, mean_c, texit>>

\* lines 132-134: position_gate_init has returned
TracerRows ==
    /\ tpc = "init"
    /\ tpending = <<>>
    /\ tpc' = "while"
    /\ UNCHANGED <<tquality, traces, nmean, hdiv, gate_dt, trace_i, gate_t,
                   mean_c, megA, megB, tpending, tcmds, texit>>

\* lines 135-139: the loop test and the call of position_gate; line 147
\* when the trace is over
TracerWhile ==
    /\ tpc = "while"
    /\ IF gate_t <= 7 * hdiv - gate_dt \div 2
       THEN /\ tpending' = position_gate(gate_t, gate_dt)
            /\ tpc' = "gate"
            /\ UNCHANGED trace_i
       ELSE /\ trace_i' = trace_i + 1
            /\ tpc' = "for"
            /\ UNCHANGED tpending
    /\ UNCHANGED <<tquality, traces, nmean, hdiv, gate_dt, gate_t, mean_c,
                   megA, megB, tcmds, texit>>

\* line 140
TracerWait ==
    /\ tpc = "gate"
    /\ tpending = <<>>
    /\ tcmds' = Logged(tcmds, wait_curvetracer)
    /\ mean_c' = 1
    /\ tpc' = "mean"
    /\ UNCHANGED <<tquality, traces, nmean, hdiv, gate_dt, trace_i, gate_t,
                   megA, megB, tpending, texit>>

\* lines 141-144 for one channel: measure_mean (eelib.py 120-130), a number
\* or exit 2
TracerMean ==
    /\ tpc = "mean"
    /\ mean_c <= nmean
    /\ tcmds' = Logged(tcmds, <<Cmd("MEAN?", mean_c)>>)
    /\ \/ mean_c' = mean_c + 1 /\ UNCHANGED <<tpc, texit>>
       \/ tpc' = "exit" /\ texit' = 2 /\ UNCHANGED mean_c
    /\ UNCHANGED <<tquality, traces, nmean, hdiv, gate_dt, trace_i, gate_t,
                   megA, megB, tpending>>

\* lines 145-146: t = t + dt, a sum of doubles, rounded
TracerAdvance ==
    /\ tpc = "mean"
    /\ mean_c > nmean
    /\ \E rounding \in -1 .. 1 :
          /\ Drift(gate_t + gate_dt + rounding, hdiv, gate_dt) \in -MaxDrift .. MaxDrift
          /\ gate_t' = gate_t + gate_dt + rounding
    /\ tpc' = "while"
    /\ UNCHANGED <<tquality, traces, nmean, hdiv, gate_dt, trace_i, mean_c,
                   megA, megB, tpending, tcmds, texit>>

\* lines 149-154
TracerFinish ==
    /\ tpc = "for"
    /\ trace_i >= traces
    /\ tcmds' = Logged(tcmds, <<Cmd("MEGS", 0)>>)
    /\ tpc' = "done"
    /\ UNCHANGED <<tquality, traces, nmean, hdiv, gate_dt, trace_i, gate_t,
                   mean_c, megA, megB, tpending, texit>>

-----------------------------------------------------------------------------
(* The scalar measurements: measure_vpp (eelib.py 108-118), measure_mean   *)
(* (120-130), measure_level (132-142), measure_sample (datalogger.py       *)
(* 39-49) and measure_phase (eelib.py 144-158, bodeplot.py 90-104), each   *)
(* called from a loop that records what it returns.  A call ends in one of *)
(* three ways: it returns a value, it calls sys.exit, or it raises.        *)

MeasureKinds == {"vpp", "mean", "level", "sample", "phase"}

\* the numbers an answer may carry: microvolts, or degrees for the phase
Readings == {-540, -181, -180, -1, 0, 1, 179, 180, 181, 540}

Return(v) == [how |-> "returned", val |-> v, status |-> 0]
ExitWith(status) == [how |-> "exit", val |-> 0, status |-> status]

\* float() of a text that starts with "*": ValueError, which nobody
\* catches; the interpreter prints the traceback and exits with status 1
ValueError == [how |-> "raised", val |-> 0, status |-> 1]

\* eelib.py 113-118
measure_vpp(ans) ==
    IF ans.shape = "valid" THEN Return(ans.val) ELSE ExitWith(2)

\* eelib.py 125-130
measure_mean(ans) ==
    IF ans.shape = "valid" THEN Return(ans.val) ELSE ExitWith(2)

\* eelib.py 137-142: if match, float(match.group(1))
measure_level(ans) ==
    IF ans.shape # "malformed"
    THEN (IF ans.shape = "sentinel" THEN ValueError ELSE Return(ans.val))
    ELSE ExitWith(2)

\* datalogger.py 44-49: if match, float(match.group(1))
measure_sample(ans) ==
    IF ans.shape # "malformed"
    THEN (IF ans.shape = "sentinel" THEN ValueError ELSE Return(ans.val))
    ELSE ExitWith(2)

\* eelib.py 150-158, bodeplot.py 96-104
measure_phase_sentinel_aborts(ans) ==
    IF ans.shape = "valid" THEN Return(norm_angle(ans.val)) ELSE ExitWith(4)

measure_phase(ans) ==
    IF ans.shape # "malformed"
    THEN (IF ans.shape = "sentinel" THEN Return(0)
          ELSE Return(norm_angle(ans.val)))
    ELSE ExitWith(4)

Measure(kind, ans) ==
    CASE kind = "vpp" -> measure_vpp(ans)
      [] kind = "mean" -> measure_mean(ans)
      [] kind = "level" -> measure_level(ans)
      [] kind = "sample" -> measure_sample(ans)
      [] kind = "phase" -> measure_phase(ans)

MeasIdle ==
    /\ mpc = "idle" /\ mkind = "vpp" /\ manswer = NoReply /\ mresult = 0
    /\ mrecorded = <<>> /\ mexit = 0

InitMeasure ==
    /\ mpc = "call"
    /\ mkind \in MeasureKinds
    /\ manswer = NoReply /\ mresult = 0 /\ mrecorded = <<>> /\ mexit = 0

\* the query, the answer and what the function makes of it
MeasureCall ==
    /\ mpc = "call"
    /\ Len(mrecorded) < MaxCalls
    /\ \E shape \in Shapes, v \in Readings :
          /\ manswer' = Reply(shape, IF shape = "valid" THEN v ELSE 0)
          /\ LET out == Measure(mkind, manswer')
             IN  /\ mpc' = out.how
                 /\ mresult' = out.val
                 /\ mexit' = out.status
    /\ UNCHANGED <<mkind, mrecorded>>

\* the caller appends and prints the value: bodeplot.py 235-241,
\* curvetracer.py 143-144, datalogger.py 130-131
MeasureRecord ==
    /\ mpc = "returned"
    /\ mrecorded' = Append(mrecorded, mresult)
    /\ mpc' = "call"
    /\ UNCHANGED <<mkind, manswer, mresult, mexit>>

\* the caller's loop is over
MeasureDone ==
    /\ mpc = "call"
    /\ Len(mrecorded) >= MaxCalls
    /\ mpc' = "done"
    /\ UNCHANGED <<mkind, manswer, mresult, mrecorded, mexit>>

-----------------------------------------------------------------------------
(* The session: eelib.py lines 195-229 open the instruments when a tool    *)
(* imports the module, first the addresses config.ini pins, then whatever  *)
(* rm.list_resources() enumerates; the tool then runs and ends either by   *)
(* close_resources() on its last lines or by sys.exit somewhere before.    *)

\* the keys of resources, in the order lines 208-213 read their pins
Roles == <<"dso", "awg", "psu">>

\* addresses an instrument may have; "ASRL1" is no instrument of the bench
Addresses == {"USB::SDS-a::INSTR", "USB::SDS-b::INSTR", "USB::SDG-a::INSTR",
              "USB::SPD-a::INSTR", "ASRL1::INSTR"}

\* lines 216-224: the role whose pattern the address matches
RoleOf(addr) ==
    CASE addr \in {"USB::SDS-a::INSTR", "USB::SDS-b::INSTR"} -> "dso"
      [] addr = "USB::SDG-a::INSTR" -> "awg"
      [] addr = "USB::SPD-a::INSTR" -> "psu"
      [] OTHER -> "none"

NoHandle == [role |-> "none", addr |-> "none", seq |-> 0]

\* rm.open_resource(addr), assigned to resources[role]: a new handle each
\* time, also for an address that is open already
open_resource(role, addr) ==
    [role |-> role, addr |-> addr, seq |-> Cardinality(opened) + 1]

\* the enumerations of at most MaxListed distinct addresses
Listings ==
    {l \in UNION {[1 .. k -> Addresses] : k \in 0 .. MaxListed} :
        \A i, j \in DOMAIN l : i # j => l[i] # l[j]}

SessionIdle ==
    /\ sespc = "idle" /\ pins = <<>> /\ listed = <<>> /\ resources = <<>>
    /\ opened = {} /\ sesexit = 0

\* lines 199-204
InitSessionStart ==
    /\ sespc = "dso"
    /\ pins \in [{"dso", "awg", "psu"} -> Addresses \cup {"none"}]
    /\ listed \in Listings
    /\ resources = [r \in {"dso", "awg", "psu"} |-> NoHandle]
    /\ opened = {}
    /\ sesexit = 0

\* open_resource raises: lines 225-226 leave with sys.exit(message), which
\* is exit status 1; nothing is closed
SessionFail ==
    /\ sespc' = "exit"
    /\ sesexit' = 1
    /\ UNCHANGED <<resources, opened>>

\* lines 208-213, one key per step
SessionOpenPinned ==
    /\ sespc \in {"dso", "awg", "psu"}
    /\ IF pins[sespc] = "none"
       THEN /\ sespc' = (IF sespc = "dso" THEN "awg"
                         ELSE IF sespc = "awg" THEN "psu" ELSE "list")
            /\ UNCHANGED <<resources, opened, sesexit>>
       ELSE \/ /\ resources' =
                    [resources EXCEPT ![sespc] = open_resource(sespc, pins[sespc])]
               /\ opened' = opened \cup {open_resource(sespc, pins[sespc])}
               /\ sespc' = (IF sespc = "dso" THEN "awg"
                            ELSE IF sespc = "awg" THEN "psu" ELSE "list")
               /\ UNCHANGED sesexit
            \/ SessionFail
    /\ UNCHANGED <<pins, listed>>

\* lines 215-224, one enumerated resource per step
SessionDiscover ==
    /\ sespc = "list"
    /\ listed # <<>>
    /\ IF RoleOf(Head(listed)) = "none"
       THEN UNCHANGED <<sespc, resources, opened, sesexit>>
       ELSE \/ /\ resources' =
                    [resources EXCEPT ![RoleOf(Head(listed))] =
                        open_resource(RoleOf(Head(listed)), Head(listed))]
               /\ opened' = opened \cup
                    {open_resource(RoleOf(Head(listed)), Head(listed))}
               /\ UNCHANGED <<sespc, sesexit>>
            \/ SessionFail
    /\ listed' = Tail(listed)
    /\ UNCHANGED pins

\* lines 227-229: dso, awg and psu are bound; the tool starts
SessionBound ==
    /\ sespc = "list"
    /\ listed = <<>>
    /\ sespc' = "run"
    /\ UNCHANGED <<pins, listed, resources, opened, sesexit>>

\* the statuses the tools leave with through sys.exit: 0 for no active
\* channel (plot.py line 48), 1 for an uncaught exception or the sample
\* limit, 2..8 for malformed answers and failed checks
ExitStatuses == 0 .. 8

\* sys.exit(status) in the tool or in a function of eelib.py it calls, for
\* instance eelib.py line 117 or plot.py lines 48-56
ToolExit ==
    /\ sespc = "run"
    /\ \E status \in ExitStatuses :
          /\ sespc' = "exit"
          /\ sesexit' = status
    /\ UNCHANGED <<pins, listed, resources, opened>>

\* the tool reaches its last lines: close_resources(), lines 195-197,
\* closes what resources holds
ToolFinish ==
    /\ sespc = "run"
    /\ opened' = opened \ {resources[r] : r \in DOMAIN resources}
    /\ sespc' = "closed"
    /\ UNCHANGED <<pins, listed, resources, sesexit>>

-----------------------------------------------------------------------------
(* vunit(v), eelib.py lines 25-31 (and bodeplot.py 54-60).  A voltage is   *)
(* the decimal (-)m * 10^e; the text returned is kept as the number shown, *)
(* again a decimal, and the unit after it.  Python prints the quotient     *)
(* v / factors[i] as the shortest text of the nearest double, so a whole   *)
(* quotient reads "500.0" and some quotients carry the double's last       *)
(* digit ("699.9999999999999"); the decimal here is the quotient itself.   *)

\* units and factors, lines 27-28; a factor is kept as its exponent of ten
vunits == <<"V", "mV", "uV">>
vfactors == <<0, -3, -6>>

Volts ==
    [neg : BOOLEAN, m : 0 .. MaxMant, e : (0 - MaxVoltExp) .. 0]

\* abs(v) >= factors[i], line 30, for the factor 10^fexp
AtLeast(v, fexp) ==
    IF v.e >= fexp THEN v.m * Pow10(v.e - fexp) >= 1 ELSE v.m >= Pow10(fexp - v.e)

\* f"{v / factors[i]}{units[i]}", line 30
Shown(v, i) ==
    [neg |-> v.neg, m |-> v.m, e |-> v.e - vfactors[i], unit |-> vunits[i]]

\* the loop taken from the smallest unit upwards
vunit_smallest_first(v) ==
    IF AtLeast(v, vfactors[3]) THEN Shown(v, 3)
    ELSE [neg |-> FALSE, m |-> 1, e |-> 0, unit |-> "uV"]

\* lines 29-31: the first unit, going down from V, whose factor is at most
\* |v|; below a microvolt the text is "1uV"
vunit(v) ==
    IF AtLeast(v, vfactors[1]) THEN Shown(v, 1)
    ELSE IF AtLeast(v, vfactors[2]) THEN Shown(v, 2)
    ELSE IF AtLeast(v, vfactors[3]) THEN Shown(v, 3)
    ELSE [neg |-> FALSE, m |-> 1, e |-> 0, unit |-> "uV"]

NoText == [neg |-> FALSE, m |-> 0, e |-> 0, unit |-> ""]

VunitIdle == upc = "idle" /\ uv = <<>> /\ ushown = <<>>

InitVunitTest ==
    /\ upc = "call"
    /\ uv \in Volts
    /\ ushown = NoText

CallVunit ==
    /\ upc = "call"
    /\ upc' = "returned"
    /\ ushown' = vunit(uv)
    /\ UNCHANGED uv

-----------------------------------------------------------------------------
(* datalogger.py from line 85 on, started with a sample limit: the         *)
(* generator setup with the step dvawg (lines 90-101), the logging loop    *)
(* (lines 113-134) and the closes (lines 136-137).  Offsets are kept in    *)
(* units of 1/(limit - 1) volts, so that dvawg = (vmax - vmin) /           *)
(* (limit - 1) is the integer vmax - vmin; both instruments were found.    *)

\* the number of offset units in a volt
PerVolt == IF llimit > 1 THEN llimit - 1 ELSE 1

LoggerIdle ==
    /\ lpc = "idle" /\ llimit = 0 /\ cawg = 0 /\ lvmin = 0 /\ lvmax = 0
    /\ dvawg = 0 /\ vawg = 0 /\ log_n = 0 /\ lchan = 0 /\ lrows = 0
    /\ lofst = 0 /\ lapplied = <<>> /\ lopen = {} /\ lexit = 0

\* lines 66-83 and 85-86
InitDatalogger ==
    /\ lpc = "setup"
    /\ llimit \in 1 .. MaxLimit
    /\ cawg \in 0 .. 2
    /\ lvmin \in 0 .. MaxVolt
    /\ lvmax \in 0 .. MaxVolt
    /\ lchan \in 0 .. MaxActive
    /\ dvawg = 0 /\ vawg = 0 /\ log_n = 0 /\ lrows = 0
    /\ lofst = 0 /\ lapplied = <<>>
    /\ lopen = {"dso", "awg"}
    /\ lexit = 0

\* lines 90-112: the generator setup, when a channel is selected, with
\* the division by limit - 1; then channels, n and vawg
LoggerSetup ==
    /\ lpc = "setup"
    /\ IF cawg = 0
       THEN /\ lpc' = "while"
            /\ vawg' = lvmin * PerVolt
            /\ UNCHANGED <<dvawg, lofst, lexit>>
       ELSE /\ lofst' = lvmin * PerVolt
            /\ IF llimit - 1 = 0
               THEN /\ lpc' = "ZeroDivisionError"
                    /\ lexit' = 1
                    /\ UNCHANGED <<dvawg, vawg>>
               ELSE /\ dvawg' = lvmax - lvmin
                    /\ vawg' = lvmin * PerVolt
                    /\ lpc' = "while"
                    /\ UNCHANGED lexit
    /\ UNCHANGED <<llimit, cawg, lvmin, lvmax, log_n, lchan, lrows, lapplied, lopen>>

\* lines 114-117: the offset of the sample to come, then wait()
LoggerOffset ==
    /\ lpc = "while"
    /\ log_n < llimit
    /\ dvawg # 0
    /\ lofst' = vawg
    /\ vawg' = vawg + dvawg
    /\ lpc' = "sample"
    /\ UNCHANGED <<llimit, cawg, lvmin, lvmax, dvawg, log_n, lchan, lrows, lapplied,
                   lopen, lexit>>

\* lines 119-134: one row, a measure_sample per channel; a malformed
\* answer leaves with status 2 and a sentinel raises ValueError
LoggerSample ==
    /\ \/ lpc = "sample"
       \/ lpc = "while" /\ log_n < llimit /\ dvawg = 0
    /\ \E answer \in IF lchan = 0 THEN {"valid"} ELSE Shapes :
          IF answer = "valid"
          THEN /\ lrows' = lrows + 1
               /\ lapplied' = Append(lapplied, lofst)
               /\ log_n' = log_n + 1
               /\ lpc' = "while"
               /\ UNCHANGED lexit
          ELSE /\ lpc' = (IF answer = "malformed" THEN "exit" ELSE "ValueError")
               /\ lexit' = (IF answer = "malformed" THEN 2 ELSE 1)
               /\ UNCHANGED <<lrows, lapplied, log_n>>
    /\ UNCHANGED <<llimit, cawg, lvmin, lvmax, dvawg, vawg, lchan, lofst, lopen>>

\* lines 113 and 136-137: the limit is reached, both handles are closed
LoggerFinish ==
    /\ lpc = "while"
    /\ ~(log_n < llimit)
    /\ lopen' = {}
    /\ lpc' = "done"
    /\ UNCHANGED <<llimit, cawg, lvmin, lvmax, dvawg, vawg, log_n, lchan, lrows,
                   lofst, lapplied, lexit>>

-----------------------------------------------------------------------------
(* Specifications *)

vars == <<angleVars, hscaleVars, sweepVars, fetchVars, plotVars, autoVars, waitVars, tracerVars, measVars, sessionVars, vunitVars, loggerVars>>

InitAngle == InitAngleTest /\ HscaleIdle /\ SweepIdle /\ FetchIdle /\ PlotIdle /\ AutoIdle /\ WaitIdle /\ TracerIdle /\ MeasIdle /\ SessionIdle /\ VunitIdle /\ LoggerIdle
NextAngle ==
    \/ CallNormAngle /\ UNCHANGED <<hscaleVars, sweepVars, fetchVars, plotVars, autoVars, waitVars, tracerVars, measVars, sessionVars, vunitVars, loggerVars>>
    \/ CallNormAngleAgain /\ UNCHANGED <<hscaleVars, sweepVars, fetchVars, plotVars, autoVars, waitVars, tracerVars, measVars, sessionVars, vunitVars, loggerVars>>
SpecAngle == InitAngle /\ [][NextAngle]_vars

InitHscale == InitHscaleTest /\ AngleIdle /\ SweepIdle /\ FetchIdle /\ PlotIdle /\ AutoIdle /\ WaitIdle /\ TracerIdle /\ MeasIdle /\ SessionIdle /\ VunitIdle /\ LoggerIdle
NextHscale ==
    \/ CallHscale /\ UNCHANGED <<angleVars, sweepVars, fetchVars, plotVars, autoVars, waitVars, tracerVars, measVars, sessionVars, vunitVars, loggerVars>>
    \/ CallHscaleHigher /\ UNCHANGED <<angleVars, sweepVars, fetchVars, plotVars, autoVars, waitVars, tracerVars, measVars, sessionVars, vunitVars, loggerVars>>
SpecHscale == InitHscale /\ [][NextHscale]_vars

InitSweep == InitBode /\ AngleIdle /\ HscaleIdle /\ FetchIdle /\ PlotIdle /\ AutoIdle /\ WaitIdle /\ TracerIdle /\ MeasIdle /\ SessionIdle /\ VunitIdle /\ LoggerIdle
NextSweep ==
    \/ Setup /\ UNCHANGED <<angleVars, hscaleVars, fetchVars, plotVars, autoVars, waitVars, tracerVars, measVars, sessionVars, vunitVars, loggerVars>>
    \/ QuerySampleRate /\ UNCHANGED <<angleVars, hscaleVars, fetchVars, plotVars, autoVars, waitVars, tracerVars, measVars, sessionVars, vunitVars, loggerVars>>
    \/ LoopTest /\ UNCHANGED <<angleVars, hscaleVars, fetchVars, plotVars, autoVars, waitVars, tracerVars, measVars, sessionVars, vunitVars, loggerVars>>
    \/ SetFrequency /\ UNCHANGED <<angleVars, hscaleVars, fetchVars, plotVars, autoVars, waitVars, tracerVars, measVars, sessionVars, vunitVars, loggerVars>>
    \/ VautoscaleIn /\ UNCHANGED <<angleVars, hscaleVars, fetchVars, plotVars, autoVars, waitVars, tracerVars, measVars, sessionVars, vunitVars, loggerVars>>
    \/ VautoscaleOut /\ UNCHANGED <<angleVars, hscaleVars, fetchVars, plotVars, autoVars, waitVars, tracerVars, measVars, sessionVars, vunitVars, loggerVars>>
    \/ MeasureVppIn /\ UNCHANGED <<angleVars, hscaleVars, fetchVars, plotVars, autoVars, waitVars, tracerVars, measVars, sessionVars, vunitVars, loggerVars>>
    \/ MeasureVppOut /\ UNCHANGED <<angleVars, hscaleVars, fetchVars, plotVars, autoVars, waitVars, tracerVars, measVars, sessionVars, vunitVars, loggerVars>>
    \/ ComputeDb /\ UNCHANGED <<angleVars, hscaleVars, fetchVars, plotVars, autoVars, waitVars, tracerVars, measVars, sessionVars, vunitVars, loggerVars>>
    \/ MeasurePhase /\ UNCHANGED <<angleVars, hscaleVars, fetchVars, plotVars, autoVars, waitVars, tracerVars, measVars, sessionVars, vunitVars, loggerVars>>
    \/ Record /\ UNCHANGED <<angleVars, hscaleVars, fetchVars, plotVars, autoVars, waitVars, tracerVars, measVars, sessionVars, vunitVars, loggerVars>>
    \/ Advance /\ UNCHANGED <<angleVars, hscaleVars, fetchVars, plotVars, autoVars, waitVars, tracerVars, measVars, sessionVars, vunitVars, loggerVars>>
    \/ Finish /\ UNCHANGED <<angleVars, hscaleVars, fetchVars, plotVars, autoVars, waitVars, tracerVars, measVars, sessionVars, vunitVars, loggerVars>>
SpecSweep == InitSweep /\ [][NextSweep]_vars

\* The script is one sequential process: while a statement is left to run,
\* the interpreter runs it.
FairSweep == SpecSweep /\ WF_vars(NextSweep)

InitFetch == InitFetchCall /\ AngleIdle /\ HscaleIdle /\ SweepIdle /\ PlotIdle /\ AutoIdle /\ WaitIdle /\ TracerIdle /\ MeasIdle /\ SessionIdle /\ VunitIdle /\ LoggerIdle
NextFetch ==
    \/ FetchVscale /\ UNCHANGED <<angleVars, hscaleVars, sweepVars, plotVars, autoVars, waitVars, tracerVars, measVars, sessionVars, vunitVars, loggerVars>>
    \/ FetchVoffset /\ UNCHANGED <<angleVars, hscaleVars, sweepVars, plotVars, autoVars, waitVars, tracerVars, measVars, sessionVars, vunitVars, loggerVars>>
    \/ FetchNsamples /\ UNCHANGED <<angleVars, hscaleVars, sweepVars, plotVars, autoVars, waitVars, tracerVars, measVars, sessionVars, vunitVars, loggerVars>>
    \/ FetchBatch /\ UNCHANGED <<angleVars, hscaleVars, sweepVars, plotVars, autoVars, waitVars, tracerVars, measVars, sessionVars, vunitVars, loggerVars>>
    \/ FetchReturn /\ UNCHANGED <<angleVars, hscaleVars, sweepVars, plotVars, autoVars, waitVars, tracerVars, measVars, sessionVars, vunitVars, loggerVars>>
SpecFetch == InitFetch /\ [][NextFetch]_vars


InitPlot == InitPlotScript /\ AngleIdle /\ HscaleIdle /\ SweepIdle /\ FetchIdle /\ AutoIdle /\ WaitIdle /\ TracerIdle /\ MeasIdle /\ SessionIdle /\ VunitIdle /\ LoggerIdle
NextPlot ==
    \/ PlotActiveChannels /\ UNCHANGED <<angleVars, hscaleVars, sweepVars, fetchVars, autoVars, waitVars, tracerVars, measVars, sessionVars, vunitVars, loggerVars>>
    \/ PlotNsamples /\ UNCHANGED <<angleVars, hscaleVars, sweepVars, fetchVars, autoVars, waitVars, tracerVars, measVars, sessionVars, vunitVars, loggerVars>>
    \/ PlotSameCount /\ UNCHANGED <<angleVars, hscaleVars, sweepVars, fetchVars, autoVars, waitVars, tracerVars, measVars, sessionVars, vunitVars, loggerVars>>
    \/ PlotHscale /\ UNCHANGED <<angleVars, hscaleVars, sweepVars, fetchVars, autoVars, waitVars, tracerVars, measVars, sessionVars, vunitVars, loggerVars>>
    \/ PlotStop /\ UNCHANGED <<angleVars, hscaleVars, sweepVars, fetchVars, autoVars, waitVars, tracerVars, measVars, sessionVars, vunitVars, loggerVars>>
    \/ PlotFetch /\ UNCHANGED <<angleVars, hscaleVars, sweepVars, fetchVars, autoVars, waitVars, tracerVars, measVars, sessionVars, vunitVars, loggerVars>>
    \/ PlotArm /\ UNCHANGED <<angleVars, hscaleVars, sweepVars, fetchVars, autoVars, waitVars, tracerVars, measVars, sessionVars, vunitVars, loggerVars>>
    \/ PlotFinish /\ UNCHANGED <<angleVars, hscaleVars, sweepVars, fetchVars, autoVars, waitVars, tracerVars, measVars, sessionVars, vunitVars, loggerVars>>
SpecPlot == InitPlot /\ [][NextPlot]_vars


InitAuto == InitVautoscale /\ AngleIdle /\ HscaleIdle /\ SweepIdle /\ FetchIdle /\ PlotIdle /\ WaitIdle /\ TracerIdle /\ MeasIdle /\ SessionIdle /\ VunitIdle /\ LoggerIdle
NextAuto ==
    \/ VautoFor /\ UNCHANGED <<angleVars, hscaleVars, sweepVars, fetchVars, plotVars, waitVars, tracerVars, measVars, sessionVars, vunitVars, loggerVars>>
    \/ VautoMin /\ UNCHANGED <<angleVars, hscaleVars, sweepVars, fetchVars, plotVars, waitVars, tracerVars, measVars, sessionVars, vunitVars, loggerVars>>
    \/ VautoMax /\ UNCHANGED <<angleVars, hscaleVars, sweepVars, fetchVars, plotVars, waitVars, tracerVars, measVars, sessionVars, vunitVars, loggerVars>>
    \/ VautoAdjust /\ UNCHANGED <<angleVars, hscaleVars, sweepVars, fetchVars, plotVars, waitVars, tracerVars, measVars, sessionVars, vunitVars, loggerVars>>
    \/ VautoReturn /\ UNCHANGED <<angleVars, hscaleVars, sweepVars, fetchVars, plotVars, waitVars, tracerVars, measVars, sessionVars, vunitVars, loggerVars>>
SpecAuto == InitAuto /\ [][NextAuto]_vars

\* vautoscale is one sequential function: while a statement is left to
\* run, the interpreter runs it, and the scope answers every query.
FairAuto == SpecAuto /\ WF_vars(NextAuto)


InitWait == InitWaitCall /\ AngleIdle /\ HscaleIdle /\ SweepIdle /\ FetchIdle /\ PlotIdle /\ AutoIdle /\ TracerIdle /\ MeasIdle /\ SessionIdle /\ VunitIdle /\ LoggerIdle
NextWait ==
    \/ WaitCall /\ UNCHANGED <<angleVars, hscaleVars, sweepVars, fetchVars, plotVars, autoVars, tracerVars, measVars, sessionVars, vunitVars, loggerVars>>
    \/ WaitSleep /\ UNCHANGED <<angleVars, hscaleVars, sweepVars, fetchVars, plotVars, autoVars, tracerVars, measVars, sessionVars, vunitVars, loggerVars>>
    \/ WaitOpc /\ UNCHANGED <<angleVars, hscaleVars, sweepVars, fetchVars, plotVars, autoVars, tracerVars, measVars, sessionVars, vunitVars, loggerVars>>
    \/ WaitReturn /\ UNCHANGED <<angleVars, hscaleVars, sweepVars, fetchVars, plotVars, autoVars, tracerVars, measVars, sessionVars, vunitVars, loggerVars>>
SpecWait == InitWait /\ [][NextWait]_vars


InitTracer == InitCurveTracer /\ AngleIdle /\ HscaleIdle /\ SweepIdle /\ FetchIdle /\ PlotIdle /\ AutoIdle /\ WaitIdle /\ MeasIdle /\ SessionIdle /\ VunitIdle /\ LoggerIdle
NextTracer ==
    \/ TracerSetup /\ UNCHANGED <<angleVars, hscaleVars, sweepVars, fetchVars, plotVars, autoVars, waitVars, measVars, sessionVars, vunitVars, loggerVars>>
    \/ TracerHscale /\ UNCHANGED <<angleVars, hscaleVars, sweepVars, fetchVars, plotVars, autoVars, waitVars, measVars, sessionVars, vunitVars, loggerVars>>
    \/ TracerTrace /\ UNCHANGED <<angleVars, hscaleVars, sweepVars, fetchVars, plotVars, autoVars, waitVars, measVars, sessionVars, vunitVars, loggerVars>>
    \/ TracerWrite /\ UNCHANGED <<angleVars, hscaleVars, sweepVars, fetchVars, plotVars, autoVars, waitVars, measVars, sessionVars, vunitVars, loggerVars>>
    \/ TracerRows /\ UNCHANGED <<angleVars, hscaleVars, sweepVars, fetchVars, plotVars, autoVars, waitVars, measVars, sessionVars, vunitVars, loggerVars>>
    \/ TracerWhile /\ UNCHANGED <<angleVars, hscaleVars, sweepVars, fetchVars, plotVars, autoVars, waitVars, measVars, sessionVars, vunitVars, loggerVars>>
    \/ TracerWait /\ UNCHANGED <<angleVars, hscaleVars, sweepVars, fetchVars, plotVars, autoVars, waitVars, measVars, sessionVars, vunitVars, loggerVars>>
    \/ TracerMean /\ UNCHANGED <<angleVars, hscaleVars, sweepVars, fetchVars, plotVars, autoVars, waitVars, measVars, sessionVars, vunitVars, loggerVars>>
    \/ TracerAdvance /\ UNCHANGED <<angleVars, hscaleVars, sweepVars, fetchVars, plotVars, autoVars, waitVars, measVars, sessionVars, vunitVars, loggerVars>>
    \/ TracerFinish /\ UNCHANGED <<angleVars, hscaleVars, sweepVars, fetchVars, plotVars, autoVars, waitVars, measVars, sessionVars, vunitVars, loggerVars>>
SpecTracer == InitTracer /\ [][NextTracer]_vars


InitMeas == InitMeasure /\ AngleIdle /\ HscaleIdle /\ SweepIdle /\ FetchIdle /\ PlotIdle /\ AutoIdle /\ WaitIdle /\ TracerIdle /\ SessionIdle /\ VunitIdle /\ LoggerIdle
NextMeas ==
    \/ MeasureCall /\ UNCHANGED <<angleVars, hscaleVars, sweepVars, fetchVars, plotVars, autoVars, waitVars, tracerVars, sessionVars, vunitVars, loggerVars>>
    \/ MeasureRecord /\ UNCHANGED <<angleVars, hscaleVars, sweepVars, fetchVars, plotVars, autoVars, waitVars, tracerVars, sessionVars, vunitVars, loggerVars>>
    \/ MeasureDone /\ UNCHANGED <<angleVars, hscaleVars, sweepVars, fetchVars, plotVars, autoVars, waitVars, tracerVars, sessionVars, vunitVars, loggerVars>>
SpecMeas == InitMeas /\ [][NextMeas]_vars


InitSession == InitSessionStart /\ AngleIdle /\ HscaleIdle /\ SweepIdle /\ FetchIdle /\ PlotIdle /\ AutoIdle /\ WaitIdle /\ TracerIdle /\ MeasIdle /\ VunitIdle /\ LoggerIdle
NextSession ==
    \/ SessionOpenPinned /\ UNCHANGED <<angleVars, hscaleVars, sweepVars, fetchVars, plotVars, autoVars, waitVars, tracerVars, measVars, vunitVars, loggerVars>>
    \/ SessionDiscover /\ UNCHANGED <<angleVars, hscaleVars, sweepVars, fetchVars, plotVars, autoVars, waitVars, tracerVars, measVars, vunitVars, loggerVars>>
    \/ SessionBound /\ UNCHANGED <<angleVars, hscaleVars, sweepVars, fetchVars, plotVars, autoVars, waitVars, tracerVars, measVars, vunitVars, loggerVars>>
    \/ ToolExit /\ UNCHANGED <<angleVars, hscaleVars, sweepVars, fetchVars, plotVars, autoVars, waitVars, tracerVars, measVars, vunitVars, loggerVars>>
    \/ ToolFinish /\ UNCHANGED <<angleVars, hscaleVars, sweepVars, fetchVars, plotVars, autoVars, waitVars, tracerVars, measVars, vunitVars, loggerVars>>
SpecSession == InitSession /\ [][NextSession]_vars


InitVunit == InitVunitTest /\ AngleIdle /\ HscaleIdle /\ SweepIdle /\ FetchIdle /\ PlotIdle /\ AutoIdle /\ WaitIdle /\ TracerIdle /\ MeasIdle /\ SessionIdle /\ LoggerIdle
NextVunit ==
    \/ CallVunit /\ UNCHANGED <<angleVars, hscaleVars, sweepVars, fetchVars, plotVars, autoVars, waitVars, tracerVars, measVars, sessionVars, loggerVars>>
SpecVunit == InitVunit /\ [][NextVunit]_vars


InitLogger == InitDatalogger /\ AngleIdle /\ HscaleIdle /\ SweepIdle /\ FetchIdle /\ PlotIdle /\ AutoIdle /\ WaitIdle /\ TracerIdle /\ MeasIdle /\ SessionIdle /\ VunitIdle
NextLogger ==
    \/ LoggerSetup /\ UNCHANGED <<angleVars, hscaleVars, sweepVars, fetchVars, plotVars, autoVars, waitVars, tracerVars, measVars, sessionVars, vunitVars>>
    \/ LoggerOffset /\ UNCHANGED <<angleVars, hscaleVars, sweepVars, fetchVars, plotVars, autoVars, waitVars, tracerVars, measVars, sessionVars, vunitVars>>
    \/ LoggerSample /\ UNCHANGED <<angleVars, hscaleVars, sweepVars, fetchVars, plotVars, autoVars, waitVars, tracerVars, measVars, sessionVars, vunitVars>>
    \/ LoggerFinish /\ UNCHANGED <<angleVars, hscaleVars, sweepVars, fetchVars, plotVars, autoVars, waitVars, tracerVars, measVars, sessionVars, vunitVars>>
SpecLogger == InitLogger /\ [][NextLogger]_vars

Init == InitAngle \/ InitHscale \/ InitSweep \/ InitFetch \/ InitPlot \/ InitAuto \/ InitWait \/ InitTracer \/ InitMeas \/ InitSession \/ InitVunit \/ InitLogger
Next == NextAngle \/ NextHscale \/ NextSweep \/ NextFetch \/ NextPlot \/ NextAuto \/ NextWait \/ NextTracer \/ NextMeas \/ NextSession \/ NextVunit \/ NextLogger
Spec == Init /\ [][Next]_vars

-----------------------------------------------------------------------------
(* Properties of hscale *)

\* the per-division time of a scale, ordered: unit first, then the number
ScaleRank(hs) == hs[2] * 1000 + hs[1]

\* hs is the smallest step of the ladder strictly above 1 / (4f)
SmallestAboveQuarter(hs, g) ==
    /\ \E n \in 1 .. Len(ladder) : ladder[n] = hs[1]
    /\ hs[2] \in units
    /\ CmpQuarter(hs[1], hs[2], g.m, g.e) = 1
    /\ \A i \in units, n \in 1 .. Len(ladder) :
          ScaleRank(<<ladder[n], i>>) < ScaleRank(hs)
             => CmpQuarter(ladder[n], i, g.m, g.e) # 1

\* C4: for every frequency f > 0, hscale(f) is the smallest value of the
\* ladder whose duration is strictly greater than a quarter period 1/(4f).
C4_SmallestAboveQuarterPeriod ==
    hpc \in {"one", "two"} => SmallestAboveQuarter(hs1, hf1)

\* C5: hscale is non-increasing in frequency: for 0 < f1 <= f2 the time
\* returned for f2 is at most the time returned for f1.
C5_NonIncreasing ==
    hpc = "two" => ScaleRank(hs2) <= ScaleRank(hs1)

-----------------------------------------------------------------------------
(* Properties of norm_angle *)

Congruent360(a, b) == (a - b) % 360 = 0

\* C6 as stated: norm_angle(x) is congruent to x modulo 360 and lies in the
\* half-open interval (-180, 180].
C6_RangeOpenBelow ==
    apc # "arg" => Congruent360(r1, x) /\ -180 < r1 /\ r1 <= 180

\* C6 as amended: norm_angle(x) is congruent to x modulo 360 and lies in
\* the half-open interval [-180, 180), the one its docstring names.
C6_RangeClosedBelow ==
    apc # "arg" => Congruent360(r1, x) /\ -180 <= r1 /\ r1 < 180

\* the boundary angle has been normalised
C6_Witness == apc = "once" /\ x = 180 /\ r1 = -180

\* C7: norm_angle is idempotent, norm_angle(norm_angle(x)) = norm_angle(x),
\* and it maps 240 to -120 and -200 to 160.
C7_Idempotent ==
    /\ apc = "twice" => r2 = r1
    /\ apc # "arg" /\ x = 240 => r1 = -120
    /\ apc # "arg" /\ x = -200 => r1 = 160

\* an angle that needs wrapping has been normalised twice
C7_Witness == apc = "twice" /\ x = 600 /\ r1 = -120 /\ r2 = -120

-----------------------------------------------------------------------------
(* Properties of the sweep *)

\* C1: the frequencies at which a point is recorded are strictly increasing
\* (none is recorded twice) and every one of them is <= fe.
C1_StrictlyIncreasing ==
    /\ \A a, b \in 1 .. Len(xpts) : a < b => xpts[a] < xpts[b]
    /\ \A a \in 1 .. Len(xpts) : xpts[a] <= fe

\* C2: with valid answers only the sweep terminates: the frequency passes
\* fe, the loop exits, the generator output is switched off and both
\* handles are closed.  (A run that exits on an answer is not a run of
\* valid answers.)
C2_SweepTerminates ==
    <>(spc = "exit" \/ (spc = "done" /\ awgOut = FALSE /\ open = {}))

\* C3: for every frequency f > 0 and quality 1..10 the step
\* round(10^floor(log10(f)) / q) is strictly greater than 0.
C3_StepPositive ==
    (spc = "while" /\ xpts # <<>>) => df > 0

-----------------------------------------------------------------------------
(* Properties of fetch *)

\* fetch is about to request the batch that starts at point fetch_i
BatchRead == fpc = "for" /\ fetch_i < fetch_n

\* C8: against a scope that answers the batch starting at i with
\* min(20, n - i) samples and a header announcing that count, fetch(ch)
\* ends by returning exactly n voltages, in request order, for any n >= 0.
C8_AllSamplesInOrder ==
    (honest /\ fpc \in {"returned", "exit"} /\ fexit \in {0, 6})
       => /\ fpc = "returned"
          /\ Len(data) = fetch_n
          /\ \A k \in 1 .. fetch_n : data[k] = Volt(Byte(k - 1), vscale, voffset)

\* C9 as stated: an answer whose header channel differs from the channel
\* asked for, or whose byte count differs from the NP of the request
\* (batchsize), makes fetch exit with status 6 and appends nothing.
C9_HeaderAgainstRequestedNP ==
    [][ (BatchRead /\ (rawdata'.ch # ch \/ rawdata'.count # batchsize))
           => (fpc' = "exit" /\ fexit' = 6 /\ data' = data) ]_vars

\* C9 as amended: an answer whose header channel differs from the channel
\* asked for, or whose byte count differs from the count fetch expects for
\* the batch, min(batchsize, n - i + 1), makes fetch exit with status 6 and
\* appends nothing.
C9_HeaderAgainstExpectedCount ==
    [][ (BatchRead /\ (rawdata'.ch # ch
                        \/ rawdata'.count # Min(batchsize, fetch_n - fetch_i + 1)))
           => (fpc' = "exit" /\ fexit' = 6 /\ data' = data) ]_vars

\* the second batch was refused for its byte count, the first one kept
C9_Witness ==
    /\ fpc = "exit" /\ fexit = 6
    /\ fetch_i = batchsize /\ Len(data) = batchsize
    /\ rawdata.ch = ch
    /\ rawdata.count # Min(batchsize, fetch_n - fetch_i + 1)

\* C10: each payload byte b of an accepted batch becomes the signed sample
\* s (b for b <= 127, b - 256 for b >= 128) and the voltage
\* s * (vscale / 25) - voffset, with the vscale and voffset queried before
\* the first request; N payload bytes give exactly N voltages.
C10_SignedSampleToVolt ==
    [][ (BatchRead /\ fpc' = "for")
           => LET body == rawdata'.body
                  N    == Len(body) - 2
              IN  /\ vscale' = vscale /\ voffset' = voffset
                  /\ Len(data') = Len(data) + N
                  /\ \A k \in 1 .. Len(data) : data'[k] = data[k]
                  /\ \A k \in 1 .. N :
                        /\ body[k] <= 127 =>
                              data'[Len(data) + k] = body[k] * (vscale \div 25) - voffset
                        /\ body[k] >= 128 =>
                              data'[Len(data) + k] =
                                  (body[k] - 256) * (vscale \div 25) - voffset ]_vars

\* a batch holding the bytes 127 and 128 has been decoded
C10_Witness ==
    /\ fpc = "returned" /\ fetch_n = batchsize /\ wave = 1
    /\ vscale = 50 /\ voffset = 1
    /\ Len(data) = batchsize
    /\ data[1] = 127 * 2 - 1
    /\ data[2] = -128 * 2 - 1

-----------------------------------------------------------------------------
(* Properties of the waveform tool *)

\* the commands of the log that stop the acquisition or request batches
Fetching(k) == pcmds[k].op \in {"STOP", "WF?"}

\* C11: STOP and the batch requests are sent only when the count queried at
\* line 49 is <= 14000 and every active channel reported that count; a
\* count over the limit ends the run with status 1 and a differing count
\* with status 2, before any STOP or batch request; and every fetch that
\* runs requests the batches of the validated count.
C11_FetchOnlyValidatedCount ==
    /\ (\E k \in 1 .. Len(pcmds) : Fetching(k))
          => /\ plot_n <= limit
             /\ Len(counts) = Len(channels) + 1
             /\ \A k \in 1 .. Len(counts) : counts[k] = plot_n
    /\ (counts # <<>> /\ counts[1] > limit)
          => /\ ppc = "exit" /\ pexit = 1
             /\ \A k \in 1 .. Len(pcmds) : ~Fetching(k)
    /\ (\E k \in 1 .. Len(counts) : counts[k] # counts[1])
          => /\ ppc = "exit" /\ pexit = 2
             /\ \A k \in 1 .. Len(pcmds) : ~Fetching(k)
    /\ \A k \in 1 .. Len(pcmds) : pcmds[k].op = "WF?" => pcmds[k].val = plot_n

-----------------------------------------------------------------------------
(* Properties of vautoscale *)

\* how many times op was sent
NumOf(op) == Cardinality({k \in 1 .. Len(acmds) : acmds[k].op = op})

\* the index of the last op sent, 0 if none was
LastOf(op) ==
    LET sent == {k \in 1 .. Len(acmds) : acmds[k].op = op}
    IN  IF sent = {} THEN 0 ELSE CHOOSE k \in sent : \A j \in sent : j <= k

Abs(v) == IF v < 0 THEN -v ELSE v

\* C12: for every iteration bound k >= 1 vautoscale sends at most k MIN
\* queries, at most k MAX queries and at most k offset/scale pairs whatever
\* the scope answers, and it terminates: it exits at an answer it cannot
\* use, and otherwise returns after exactly k passes.
C12_TerminatesWithinBound ==
    /\ [](iterations >= 1 =>
            /\ NumOf("MIN?") <= iterations
            /\ NumOf("MAX?") <= iterations
            /\ NumOf("OFST") <= iterations
            /\ NumOf("VDIV") = NumOf("OFST"))
    /\ [](vpc = "exit" => ~Usable(match1, match2))
    /\ []((vpc = "returned" /\ iterations >= 1) =>
            /\ NumOf("MIN?") = iterations
            /\ NumOf("MAX?") = iterations
            /\ NumOf("OFST") = iterations
            /\ NumOf("VDIV") = iterations)
    /\ <>(vpc \in {"returned", "exit"})

\* two passes were made on valid answers
C12_Witness ==
    /\ vpc = "returned" /\ iterations = 2
    /\ NumOf("MIN?") = 2 /\ NumOf("VDIV") = 2

\* C13: when the MIN or the MAX answer of an iteration carries the sentinel,
\* vautoscale exits with status 1 without writing an offset or a scale, and
\* nothing is written after the exit: what earlier iterations wrote stays.
C13_SentinelAborts ==
    /\ [][ (vpc = "if" /\ (match1.shape = "sentinel" \/ match2.shape = "sentinel"))
              => (vpc' = "exit" /\ aexit' = 1 /\ acmds' = acmds) ]_vars
    /\ [][ vpc = "exit" => (vpc' = "exit" /\ acmds' = acmds) ]_vars

\* the second iteration met a sentinel, the first had written
C13_Witness ==
    /\ vpc = "exit" /\ aexit = 1
    /\ match1.shape = "valid" /\ match2.shape = "sentinel"
    /\ auto_i = 1 /\ NumOf("OFST") = 1 /\ NumOf("VDIV") = 1

\* C14 as stated: with the true extremes reported, every scale written is
\* exactly (max - min) / d and every offset exactly -(min + (max - min)/2),
\* and after the configured iterations (>= 1) the last scale written is
\* P / d and the last offset -M.
C14_ExactScaleAndOffset ==
    /\ \A k \in 1 .. Len(acmds) :
          /\ acmds[k].op = "VDIV" => acmds[k].val * vdiv = vhi - vlo
          /\ acmds[k].op = "OFST" => 20 * acmds[k].val = -(vlo + vhi)
    /\ (vpc = "returned" /\ iterations >= 1) =>
          (LastOf("VDIV") > 0 /\ LastOf("OFST") > 0)

\* C14 as amended: every scale written is (max - min) / d and every offset
\* -(min + (max - min)/2), each rounded to five decimals of a volt (at most
\* 0.000005 V away), and after the configured iterations (>= 1) the last
\* scale and offset written are P / d and -M so rounded.
C14_RoundedScaleAndOffset ==
    /\ \A k \in 1 .. Len(acmds) :
          /\ acmds[k].op = "VDIV" =>
                2 * Abs(acmds[k].val * vdiv - (vhi - vlo)) <= vdiv
          /\ acmds[k].op = "OFST" =>
                Abs(20 * acmds[k].val + (vlo + vhi)) <= 10
    /\ (vpc = "returned" /\ iterations >= 1) =>
          (LastOf("VDIV") > 0 /\ LastOf("OFST") > 0)

\* 1 V peak to peak around 0.5 V at 7.5 divisions: 0.13333V and -0.50000V
C14_Witness ==
    /\ vpc = "returned" /\ iterations = 2 /\ vdiv = 75
    /\ vlo = 0 /\ vhi = 1000000
    /\ acmds[LastOf("VDIV")].val = 13333
    /\ acmds[LastOf("OFST")].val = -50000

\* the commands that change the scope's settings, and the measurement queries
Mutating == {"OFST", "VDIV"}
Measuring == {"MIN?", "MAX?"}

\* C15: between a mutating command and the next measurement query the
\* barrier is executed, the handshake with the scope and the settle delay:
\* between the writes of iteration i and the MIN query of iteration i + 1;
\* and no barrier is executed before the first iteration.
C15_BarrierBeforeNextQuery ==
    /\ \A k, j \in 1 .. Len(acmds) :
          (k < j /\ acmds[k].op \in Mutating /\ acmds[j].op \in Measuring)
             => /\ \E b \in k + 1 .. j - 1 : acmds[b].op = "*OPC?"
                /\ \E b \in k + 1 .. j - 1 : acmds[b].op = "sleep"
    /\ \A b \in 1 .. Len(acmds) :
          acmds[b].op \in {"*OPC?", "sleep"} =>
             \E k \in 1 .. b - 1 : acmds[k].op \in Mutating

-----------------------------------------------------------------------------
(* Properties of wait *)

-----------------------------------------------------------------------------
(* Properties of the curve tracer's gate *)

\* the last k entries of the log
LastCmds(k) == SubSeq(tcmds, Len(tcmds) - k + 1, Len(tcmds))

\* the marker writes of a window centred at c, of half width h
EndWrite(c, h) == Cmd("MEGB", c + h)
StartWrite(c, h) == Cmd("MEGA", c - h)

\* C17: every position_gate(t, dt) of the loop writes the end marker
\* t + dt/2 first and the start marker t - dt/2 second, with nothing sent
\* to the scope between the two.
C17_EndBeforeStart ==
    tpc = "gate" =>
       LET h == gate_dt \div 2
       IN  \/ tpending = <<EndWrite(gate_t, h), StartWrite(gate_t, h)>>
           \/ /\ tpending = <<StartWrite(gate_t, h)>>
              /\ LastCmds(1) = <<EndWrite(gate_t, h)>>
           \/ /\ tpending = <<>>
              /\ LastCmds(2) = <<EndWrite(gate_t, h), StartWrite(gate_t, h)>>

\* the second window of a trace has been positioned
C17_Witness ==
    /\ tpc = "gate" /\ tpending = <<>>
    /\ gate_t = -7 * hdiv + gate_dt \div 2 + gate_dt
    /\ megA = gate_t - gate_dt \div 2 /\ megB = gate_t + gate_dt \div 2

\* C18 as stated: position_gate_init(t, dt) at the start of a trace writes
\* the end marker first and the start marker second.
C18_InitEndBeforeStart ==
    tpc = "init" =>
       LET h == (gate_dt \div 2) \div 2
       IN  \/ tpending = <<EndWrite(gate_t, h), StartWrite(gate_t, h)>>
           \/ /\ tpending = <<StartWrite(gate_t, h)>>
              /\ LastCmds(1) = <<EndWrite(gate_t, h)>>
           \/ /\ tpending = <<>>
              /\ LastCmds(2) = <<EndWrite(gate_t, h), StartWrite(gate_t, h)>>

\* C18 as amended: position_gate_init(t, dt) at the start of a trace writes
\* the start marker t - dt/2 first and the end marker t + dt/2 second.
C18_InitStartBeforeEnd ==
    tpc = "init" =>
       LET h == (gate_dt \div 2) \div 2
       IN  \/ tpending = <<StartWrite(gate_t, h), EndWrite(gate_t, h)>>
           \/ /\ tpending = <<EndWrite(gate_t, h)>>
              /\ LastCmds(1) = <<StartWrite(gate_t, h)>>
           \/ /\ tpending = <<>>
              /\ LastCmds(2) = <<StartWrite(gate_t, h), EndWrite(gate_t, h)>>

\* the gate of the second trace has been brought back to the left edge
C18_Witness ==
    /\ tpc = "init" /\ tpending = <<>> /\ trace_i = 1
    /\ gate_t = -7 * hdiv + gate_dt \div 2
    /\ megA = gate_t - (gate_dt \div 2) \div 2
    /\ megB = gate_t + (gate_dt \div 2) \div 2

-----------------------------------------------------------------------------
(* Properties of the scalar measurements *)

\* C19: when the answer to a peak-to-peak, mean or level-at-trigger query
\* carries the sentinel, the measurement returns nothing: the run ends
\* with the measurement's error exit (the diagnostic and status 2) and no
\* value is recorded for the query.
C19_SentinelIsErrorExit ==
    [][ (mpc = "call" /\ mkind \in {"vpp", "mean", "level", "sample"}
           /\ manswer'.shape = "sentinel")
          => (mpc' = "exit" /\ mexit' = 2 /\ mrecorded' = mrecorded) ]_vars

\* C20: measure_phase returns 0 when the answer is well-formed and carries
\* the sentinel, norm_angle of the number when it is valid, and exits with
\* status 4 when, and only when, the shape does not match; after a
\* sentinel the caller goes on and records the 0.
C20_SentinelPhaseIsZero ==
    /\ [][ (mpc = "call" /\ mkind = "phase" /\ mpc' # "done") =>
             /\ manswer'.shape = "sentinel" =>
                   (mpc' = "returned" /\ mresult' = 0 /\ mexit' = 0)
             /\ manswer'.shape = "valid" =>
                   (mpc' = "returned" /\ mresult' = norm_angle(manswer'.val)
                      /\ mexit' = 0)
             /\ manswer'.shape = "malformed" => (mpc' = "exit" /\ mexit' = 4)
             /\ mpc' # "raised" ]_vars
    /\ [][ (mpc = "returned" /\ mkind = "phase") =>
             (mpc' = "call" /\ mrecorded' = Append(mrecorded, mresult)) ]_vars

\* the second phase of a sweep was a sentinel and came back as 0, after a
\* first one of 181 degrees was recorded as -179
C20_Witness ==
    /\ mkind = "phase" /\ mpc = "returned"
    /\ manswer.shape = "sentinel" /\ mresult = 0 /\ mexit = 0
    /\ mrecorded = <<-179>>

\* C21: every query whose answer does not have the expected shape makes the
\* run abort with an error: no malformed answer is ever accepted and
\* followed by further commands. Here for the trace-enable queries of
\* active_channels(): once one of the answers was malformed, the script is
\* at an error exit.
C21_MalformedAlwaysAborts ==
    (\E k \in DOMAIN tra : tra[k] = "malformed") => (ppc = "exit" /\ pexit # 0)

-----------------------------------------------------------------------------
(* Properties of the session *)

\* C22: on every path by which a tool run ends, the aborts included
\* (malformed or sentinel answer, failed sample-count check, configuration
\* error, no active channel), every handle opened during the session has
\* been closed.
C22_EveryExitClosesHandles ==
    sespc \in {"exit", "closed"} => opened = {}

\* C25: when config.ini pins an address for a role, the handle bound to
\* the role when the tool runs is the one opened at the pinned address,
\* whatever the discovery enumerates; and after the setup at most one
\* handle per role is open.
C25_PinnedAddressWins ==
    sespc = "run" =>
        /\ \A r \in DOMAIN pins :
              pins[r] # "none" => resources[r].addr = pins[r]
        /\ \A r \in DOMAIN pins :
              Cardinality({h \in opened : h.role = r}) <= 1

-----------------------------------------------------------------------------
(* Properties of vunit *)

\* the place of a unit in vunits
UnitIndex(u) == CHOOSE i \in DOMAIN vunits : vunits[i] = u

-----------------------------------------------------------------------------
(* Properties of the data logger *)

\* C24: started with a sample limit n >= 1, with or without a generator
\* channel, the logger records exactly n samples per active channel and
\* then terminates with both handles closed; with a generator channel the
\* offsets in effect at the n samples run from vmin (first) to vmax (last)
\* in equal steps.  Stated for the runs no unreadable answer cuts short:
\* such a run ends at the closes, never otherwise.
C24_LimitedRunRecordsAndCloses ==
    (lpc \in {"done", "ZeroDivisionError"}) =>
        /\ lpc = "done"
        /\ lrows = llimit
        /\ lopen = {}
        /\ cawg # 0 =>
              /\ Len(lapplied) = llimit
              /\ \A k \in 1 .. llimit :
                    lapplied[k] * (llimit - 1) =
                       PerVolt * (lvmin * (llimit - 1) + (k - 1) * (lvmax - lvmin))

-----------------------------------------------------------------------------
(* The gate windows of a trace *)

\* the first position_gate_init of the run has returned
FirstInitDone ==
    \/ trace_i > 0
    \/ tpc \in {"while", "gate", "mean"}
    \/ tpc = "init" /\ tpending = <<>>

\* position_gate is called for a window of the running trace
CallsPositionGate == tpc = "while" /\ tpc' = "gate"

\* after every marker write from the end of the first position_gate_init
\* on, the start marker is below the end marker
GateStartBelowEnd == [][ FirstInitDone' => megA' < megB' ]_vars

\* the first window of a trace starts at -7 * hdiv
GateBeginsAtLeftEdge ==
    [][ (CallsPositionGate /\ gate_t = -7 * hdiv + gate_dt \div 2)
          => tpending'[2] = Cmd("MEGA", -7 * hdiv) ]_vars

\* every later window starts where the window before it ended
GateWindowsAdjacent ==
    [][ (CallsPositionGate /\ gate_t # -7 * hdiv + gate_dt \div 2)
          => tpending'[2] = Cmd("MEGA", megB) ]_vars

\* no window ends past +7 * hdiv
GateNeverPastRightEdge ==
    [][ CallsPositionGate
          => (tpending'[1].op = "MEGB" /\ tpending'[1].val <= 7 * hdiv) ]_vars

\* C26: with dt > 0, from the end of the first position_gate_init on, the
\* gate start marker is below the gate end marker after every single marker
\* write, the jump back to the left edge at each further trace included;
\* and within a trace consecutive windows are adjacent (window k+1 starts
\* where window k ended), the first starting at -7 * hdiv and none ending
\* past +7 * hdiv.
C26_GateOrderedAndWindowsAdjacent ==
    /\ GateStartBelowEnd
    /\ GateBeginsAtLeftEdge
    /\ GateWindowsAdjacent
    /\ GateNeverPastRightEdge

=============================================================================
